---- MODULE Spec2Model ----
(***************************************************************************)
(* A model of the quasis/crypto hash classes (MD4, MD5, RMD<128|160|256|   *)
(* 320>, SHA1, SHA2<256|512, *>): the streaming hasher (update / digest)   *)
(* and the compression functions, as one state machine.                    *)
(*                                                                         *)
(* Representation.  A byte is a number in 0..255.  A word (uint32_type,    *)
(* uint64_type, unsigned __int128) is the tuple of its object bytes in     *)
(* memory order on a little-endian host, least significant byte first; the *)
(* sources assume such a host (h2be is an unconditional byte swap).  All   *)
(* word arithmetic is therefore arithmetic modulo 2^(8 * Len(word)), and a *)
(* reinterpret_cast between words and bytes is the identity on the tuple.  *)
(***************************************************************************)
EXTENDS Integers, Sequences, FiniteSets, TLC

VARIABLES
    alg,        \* the hasher class instantiated (fixed at construction)
    m_count,    \* size_type  m_count
    m_block,    \* block_type m_block, as sizeof(block_type) bytes
    m_state,    \* state_type m_state, a tuple of words
    fed,        \* history: every byte passed to update() since construction
    calls,      \* history: the block handed to each compress() invocation
    output,     \* what the last call returned if it was digest(), <<>> if it was update()
    hasher,     \* digest()'s local copy `hasher` at its return statement, if the last
                \* call was digest(); a new object otherwise
    resumed,    \* history: update() has been called after a digest() call
    hmac,       \* the members an HMAC object has besides its inner hasher: the key
                \* block it retains (m_key) and, as history, the secret it was made
                \* from; both empty for a plain hasher
    frame,      \* the compress() call in progress, where its statements are followed
                \* one by one: pc, the number of the next statement (0: no call in
                \* progress), and its local arrays `state` and, in SHA1 and SHA2,
                \* `round`
    run         \* the update() call in progress, where its loops are followed store
                \* by store: at, the place in the body ("idle": no call in progress),
                \* the locals cursor, excess and blocks, the argument count, fill
                \* (the call is update(count, byte)) and byte, and input, the number
                \* of times the pointer `input` has been advanced

vars == <<alg, m_count, m_block, m_state, fed, calls, output, hasher, resumed, hmac,
          frame, run>>

(***************************************************************************)
(* Bytes.                                                                  *)
(***************************************************************************)
\* the tuple of f[1..n], evaluated once
Tuple(f) == f \o <<>>

\* n copies of byte b
Fill(n, b) == Tuple([i \in 1..n |-> b])

RECURSIVE BitAnd(_, _, _)
BitAnd(a, b, n) ==
    IF n = 0 THEN 0
    ELSE ((a % 2) * (b % 2)) + 2 * BitAnd(a \div 2, b \div 2, n - 1)

\* a & b for every pair of 4-bit values (entry a * 16 + b + 1) ...
AndTab4 == Tuple([i \in 1..256 |-> BitAnd((i - 1) \div 16, (i - 1) % 16, 4)])

\* ... and for every pair of bytes (entry a * 256 + b + 1), tabulated once
AndTab ==
    Tuple([i \in 1..65536 |->
        16 * AndTab4[16 * ((i - 1) \div 4096) + (((i - 1) % 256) \div 16) + 1]
           + AndTab4[16 * (((i - 1) \div 256) % 16) + ((i - 1) % 16) + 1]])

Pow2 == <<1, 2, 4, 8, 16, 32, 64, 128, 256>>

And8(a, b) == AndTab[a * 256 + b + 1]
Xor8(a, b) == a + b - 2 * AndTab[a * 256 + b + 1]
Or8(a, b)  == a + b - AndTab[a * 256 + b + 1]
Not8(a)    == 255 - a

(***************************************************************************)
(* Words: tuples of 4, 8 or 16 bytes, least significant first.             *)
(***************************************************************************)
\* a hexadecimal constant 0xAABBCCDD written as H32(\hAA, \hBB, \hCC, \hDD)
H32(a, b, c, d) == <<d, c, b, a>>
H64(a, b, c, d, e, f, g, h) == <<h, g, f, e, d, c, b, a>>

\* byte j (from 0) of a word, 0 beyond either end
ByteAt(value, j) == IF j >= 0 /\ j < Len(value) THEN value[j + 1] ELSE 0

\* Bytes i..i+3 of a + b with carry-in `carry`, followed by the carry out: a
\* ripple-carry addition, each partial sum handed on to the next byte.
AddBytes5(s1, s2, s3, s4) == <<s1 % 256, s2 % 256, s3 % 256, s4 % 256, s4 \div 256>>
AddBytes4(a, b, i, s1, s2, s3) == AddBytes5(s1, s2, s3, a[i + 3] + b[i + 3] + (s3 \div 256))
AddBytes3(a, b, i, s1, s2) == AddBytes4(a, b, i, s1, s2, a[i + 2] + b[i + 2] + (s2 \div 256))
AddBytes2(a, b, i, s1) == AddBytes3(a, b, i, s1, a[i + 1] + b[i + 1] + (s1 \div 256))
AddBytes(a, b, i, carry) == AddBytes2(a, b, i, a[i] + b[i] + carry)

\* the upper half of a + b on 8-byte words, given the result `low` for bytes 1..4
AddHigh(a, b, low) ==
    IF Len(a) = 4 THEN SubSeq(low, 1, 4)
    ELSE SubSeq(low, 1, 4) \o SubSeq(AddBytes(a, b, 5, low[5]), 1, 4)

\* value + value on unsigned words of equal width (wraps modulo 2^bits)
Add(a, b) == AddHigh(a, b, AddBytes(a, b, 1, 0))

\* value ^ value
Xor(a, b) == Tuple([i \in 1..Len(a) |-> Xor8(a[i], b[i])])

\* byte i (from 0) of value rotated left by 8 * q + s bits
RotlByte(value, q, s, i) ==
    ((value[((i + Len(value) - q) % Len(value)) + 1] * Pow2[s + 1]) % 256)
        + (value[((i + Len(value) - q - 1) % Len(value)) + 1] \div Pow2[9 - s])

\* __builtin_rotateleft32 / rotateleft64, 0 < count < bits
rotl(value, count) ==
    Tuple([i \in 1..Len(value) |-> RotlByte(value, count \div 8, count % 8, i - 1)])

\* __builtin_rotateright32 / rotateright64, 0 < count < bits
rotr(value, count) == rotl(value, 8 * Len(value) - count)

\* value >> count on an unsigned word
shr(value, count) ==
    Tuple([i \in 1..Len(value) |->
        (ByteAt(value, i - 1 + (count \div 8)) \div Pow2[(count % 8) + 1])
            + ((ByteAt(value, i + (count \div 8)) * Pow2[9 - (count % 8)]) % 256)])

\* value << count on an unsigned word of any width
shl(value, count) ==
    Tuple([i \in 1..Len(value) |->
        ((ByteAt(value, i - 1 - (count \div 8)) * Pow2[(count % 8) + 1]) % 256)
            + (ByteAt(value, i - 2 - (count \div 8)) \div Pow2[9 - (count % 8)])])

\* __builtin_bswap32 / __builtin_bswap64, and h2be(uint128_type): the bytes reversed
h2be(value) == Tuple([i \in 1..Len(value) |-> value[Len(value) + 1 - i]])

\* the object representation of an unsigned integer held in `size` bytes
RECURSIVE ToWord(_, _)
ToWord(value, size) ==
    IF size = 0 THEN <<>>
    ELSE <<value % 256>> \o ToWord(value \div 256, size - 1)

\* the bytes of an array of words in memory order (reinterpret_cast<uint8_type*>)
RECURSIVE Bytes(_)
Bytes(words) ==
    IF words = <<>> THEN <<>> ELSE Head(words) \o Bytes(Tail(words))

\* element index of a byte array viewed as an array of `size`-byte words
WordAt(bytes, index, size) == SubSeq(bytes, size * index + 1, size * index + size)


(***************************************************************************)
(* The hasher classes and their member types.                              *)
(***************************************************************************)
Algs ==
    {"MD4", "MD5", "RMD128", "RMD160", "RMD256", "RMD320", "SHA1",
     "SHA2_256_224", "SHA2_256_256",
     "SHA2_512_224", "SHA2_512_256", "SHA2_512_384", "SHA2_512_512"}

\* the class template of an instantiation
Class(a) ==
    CASE a = "MD4" -> "MD4"
      [] a = "MD5" -> "MD5"
      [] a = "SHA1" -> "SHA1"
      [] a \in {"RMD128", "RMD160", "RMD256", "RMD320"} -> "RMD"
      [] OTHER -> "SHA2"

\* template argument state_bits
state_bits(a) ==
    CASE a \in {"MD4", "MD5", "RMD128"} -> 128
      [] a \in {"SHA1", "RMD160"} -> 160
      [] a \in {"RMD256", "SHA2_256_224", "SHA2_256_256"} -> 256
      [] a = "RMD320" -> 320
      [] OTHER -> 512

\* template argument output_bits of SHA2
output_bits(a) ==
    CASE a \in {"SHA2_256_224", "SHA2_512_224"} -> 224
      [] a \in {"SHA2_256_256", "SHA2_512_256"} -> 256
      [] a = "SHA2_512_384" -> 384
      [] a = "SHA2_512_512" -> 512

\* sizeof(word_type)
sizeof_word_type(a) == IF Class(a) = "SHA2" THEN (state_bits(a) \div 8) \div 8 ELSE 4

\* sizeof(size_type)
sizeof_size_type(a) == IF Class(a) = "SHA2" THEN (state_bits(a) \div 4) \div 8 ELSE 8

\* block_type().size(): buffer<word_type, 16>::size() returns count, the number
\* of words
block_size(a) == 16

\* A faulty sizeof(block_type): the number of elements taken for the number of bytes.
sizeof_block_typeInWords(a) == block_size(a)
\* sizeof(block_type): buffer<word_type, 16>
sizeof_block_type(a) == 16 * sizeof_word_type(a)

\* state_type().size()
state_size(a) ==
    CASE Class(a) \in {"MD4", "MD5"} -> 4
      [] Class(a) = "SHA1" -> 5
      [] Class(a) = "SHA2" -> 8
      [] Class(a) = "RMD" -> state_bits(a) \div 32

\* round_type().size()
round_size(a) ==
    CASE Class(a) = "MD4" -> 48
      [] Class(a) = "MD5" -> 64
      [] Class(a) = "SHA1" -> 80
      [] Class(a) = "SHA2" -> 48 + (state_bits(a) \div 16)
      [] Class(a) = "RMD" -> IF state_bits(a) % 160 # 0 THEN 64 ELSE 80

\* A faulty output_type: as large as the whole chaining state.
sizeof_state_type(a) == state_size(a) * sizeof_word_type(a)
\* sizeof(output_type)
sizeof_output_type(a) ==
    CASE Class(a) \in {"MD4", "MD5"} -> 16
      [] Class(a) = "SHA1" -> 20
      [] Class(a) = "SHA2" -> output_bits(a) \div 8
      [] Class(a) = "RMD" -> state_bits(a) \div 8

\* the chaining state set by the constructor
InitialState(a) ==
    CASE a \in {"MD4", "MD5", "RMD128"} ->
            <<H32(\h67, \h45, \h23, \h01), H32(\hEF, \hCD, \hAB, \h89),
              H32(\h98, \hBA, \hDC, \hFE), H32(\h10, \h32, \h54, \h76)>>
      [] a \in {"SHA1", "RMD160"} ->
            <<H32(\h67, \h45, \h23, \h01), H32(\hEF, \hCD, \hAB, \h89),
              H32(\h98, \hBA, \hDC, \hFE), H32(\h10, \h32, \h54, \h76),
              H32(\hC3, \hD2, \hE1, \hF0)>>
      [] a = "RMD256" ->
            <<H32(\h67, \h45, \h23, \h01), H32(\hEF, \hCD, \hAB, \h89),
              H32(\h98, \hBA, \hDC, \hFE), H32(\h10, \h32, \h54, \h76),
              H32(\h76, \h54, \h32, \h10), H32(\hFE, \hDC, \hBA, \h98),
              H32(\h89, \hAB, \hCD, \hEF), H32(\h01, \h23, \h45, \h67)>>
      [] a = "RMD320" ->
            <<H32(\h67, \h45, \h23, \h01), H32(\hEF, \hCD, \hAB, \h89),
              H32(\h98, \hBA, \hDC, \hFE), H32(\h10, \h32, \h54, \h76),
              H32(\hC3, \hD2, \hE1, \hF0),
              H32(\h76, \h54, \h32, \h10), H32(\hFE, \hDC, \hBA, \h98),
              H32(\h89, \hAB, \hCD, \hEF), H32(\h01, \h23, \h45, \h67),
              H32(\h3C, \h2D, \h1E, \h0F)>>
      [] a = "SHA2_256_224" ->
            <<H32(\hC1, \h05, \h9E, \hD8), H32(\h36, \h7C, \hD5, \h07),
              H32(\h30, \h70, \hDD, \h17), H32(\hF7, \h0E, \h59, \h39),
              H32(\hFF, \hC0, \h0B, \h31), H32(\h68, \h58, \h15, \h11),
              H32(\h64, \hF9, \h8F, \hA7), H32(\hBE, \hFA, \h4F, \hA4)>>
      [] a = "SHA2_256_256" ->
            <<H32(\h6A, \h09, \hE6, \h67), H32(\hBB, \h67, \hAE, \h85),
              H32(\h3C, \h6E, \hF3, \h72), H32(\hA5, \h4F, \hF5, \h3A),
              H32(\h51, \h0E, \h52, \h7F), H32(\h9B, \h05, \h68, \h8C),
              H32(\h1F, \h83, \hD9, \hAB), H32(\h5B, \hE0, \hCD, \h19)>>
      [] a = "SHA2_512_224" ->
            <<H64(\h8C, \h3D, \h37, \hC8, \h19, \h54, \h4D, \hA2),
              H64(\h73, \hE1, \h99, \h66, \h89, \hDC, \hD4, \hD6),
              H64(\h1D, \hFA, \hB7, \hAE, \h32, \hFF, \h9C, \h82),
              H64(\h67, \h9D, \hD5, \h14, \h58, \h2F, \h9F, \hCF),
              H64(\h0F, \h6D, \h2B, \h69, \h7B, \hD4, \h4D, \hA8),
              H64(\h77, \hE3, \h6F, \h73, \h04, \hC4, \h89, \h42),
              H64(\h3F, \h9D, \h85, \hA8, \h6A, \h1D, \h36, \hC8),
              H64(\h11, \h12, \hE6, \hAD, \h91, \hD6, \h92, \hA1)>>
      [] a = "SHA2_512_256" ->
            <<H64(\h22, \h31, \h21, \h94, \hFC, \h2B, \hF7, \h2C),
              H64(\h9F, \h55, \h5F, \hA3, \hC8, \h4C, \h64, \hC2),
              H64(\h23, \h93, \hB8, \h6B, \h6F, \h53, \hB1, \h51),
              H64(\h96, \h38, \h77, \h19, \h59, \h40, \hEA, \hBD),
              H64(\h96, \h28, \h3E, \hE2, \hA8, \h8E, \hFF, \hE3),
              H64(\hBE, \h5E, \h1E, \h25, \h53, \h86, \h39, \h92),
              H64(\h2B, \h01, \h99, \hFC, \h2C, \h85, \hB8, \hAA),
              H64(\h0E, \hB7, \h2D, \hDC, \h81, \hC5, \h2C, \hA2)>>
      [] a = "SHA2_512_384" ->
            <<H64(\hCB, \hBB, \h9D, \h5D, \hC1, \h05, \h9E, \hD8),
              H64(\h62, \h9A, \h29, \h2A, \h36, \h7C, \hD5, \h07),
              H64(\h91, \h59, \h01, \h5A, \h30, \h70, \hDD, \h17),
              H64(\h15, \h2F, \hEC, \hD8, \hF7, \h0E, \h59, \h39),
              H64(\h67, \h33, \h26, \h67, \hFF, \hC0, \h0B, \h31),
              H64(\h8E, \hB4, \h4A, \h87, \h68, \h58, \h15, \h11),
              H64(\hDB, \h0C, \h2E, \h0D, \h64, \hF9, \h8F, \hA7),
              H64(\h47, \hB5, \h48, \h1D, \hBE, \hFA, \h4F, \hA4)>>
      [] a = "SHA2_512_512" ->
            <<H64(\h6A, \h09, \hE6, \h67, \hF3, \hBC, \hC9, \h08),
              H64(\hBB, \h67, \hAE, \h85, \h84, \hCA, \hA7, \h3B),
              H64(\h3C, \h6E, \hF3, \h72, \hFE, \h94, \hF8, \h2B),
              H64(\hA5, \h4F, \hF5, \h3A, \h5F, \h1D, \h36, \hF1),
              H64(\h51, \h0E, \h52, \h7F, \hAD, \hE6, \h82, \hD1),
              H64(\h9B, \h05, \h68, \h8C, \h2B, \h3E, \h6C, \h1F),
              H64(\h1F, \h83, \hD9, \hAB, \hFB, \h41, \hBD, \h6B),
              H64(\h5B, \hE0, \hCD, \h19, \h13, \h7E, \h21, \h79)>>

(***************************************************************************)
(* Compression functions.                                                  *)
(***************************************************************************)
\* The boolean functions, shown on one byte of each word (they are bitwise).
\* word1 ^ (word2 | ~word3)
bop045(x, y, z) == Xor8(x, Or8(y, Not8(z)))
\* (word1 | ~word3) ^ word2
bop057(x, y, z) == Xor8(Or8(x, Not8(z)), y)
\* (word1 | ~word2) ^ word3
bop089(x, y, z) == Xor8(Or8(x, Not8(y)), z)
\* word1 ^ word2 ^ word3
bop150(x, y, z) == Xor8(Xor8(x, y), z)
\* (word1 & (word2 ^ word3)) ^ word3
bop202(x, y, z) == Xor8(And8(x, Xor8(y, z)), z)
\* (word1 & word3) | (word2 & ~word3)
bop228(x, y, z) == Or8(And8(x, z), And8(y, Not8(z)))
\* (word1 & word2) | ((word1 ^ word2) & word3)
bop232(x, y, z) == Or8(And8(x, y), And8(Xor8(x, y), z))

\* the boolean function `name` applied to three words
bop(name, word1, word2, word3) ==
    Tuple([i \in 1..Len(word1) |->
        CASE name = "bop045" -> bop045(word1[i], word2[i], word3[i])
          [] name = "bop057" -> bop057(word1[i], word2[i], word3[i])
          [] name = "bop089" -> bop089(word1[i], word2[i], word3[i])
          [] name = "bop150" -> bop150(word1[i], word2[i], word3[i])
          [] name = "bop202" -> bop202(word1[i], word2[i], word3[i])
          [] name = "bop228" -> bop228(word1[i], word2[i], word3[i])
          [] name = "bop232" -> bop232(word1[i], word2[i], word3[i])])

\* F(...F(F(x, lo), lo + 1)..., hi): the statements lo..hi executed in order.
\* The first half is evaluated before the second is entered.
RECURSIVE Iterate(_, _, _, _)
Iterate(F(_, _), x, lo, hi) ==
    IF lo > hi THEN x
    ELSE IF lo = hi THEN F(x, lo)
    ELSE LET mid == (lo + hi) \div 2
             first == Iterate(F, x, lo, mid)
         IN  IF first = first THEN Iterate(F, first, mid + 1, hi) ELSE first

\* unshift(state, value) of each class, on the words the view `state` begins with
unshift(a, state, value) ==
    CASE Class(a) = "MD4" ->
            <<state[4], value, state[2], state[3]>>
      [] Class(a) = "MD5" ->
            <<state[4], Add(state[2], value), state[2], state[3]>>
      [] Class(a) = "SHA1" ->
            <<value, state[1], rotl(state[2], 30), state[3], state[4]>>
      [] a \in {"RMD128", "RMD256"} ->
            <<state[4], value, state[2], state[3]>>
      [] a \in {"RMD160", "RMD320"} ->
            <<state[5], value, state[2], rotl(state[3], 10), state[4]>>

\* the number of words unshift touches in the array it is given
view_size(a) ==
    CASE a \in {"MD4", "MD5", "RMD128", "RMD256"} -> 4
      [] a \in {"SHA1", "RMD160", "RMD320"} -> 5

\* the local arrays of MD4, MD5 and RMD compress() as one array of words:
\* `state` (a copy of m_state), whose halves RMD<256> and RMD<320> view as hash1
\* and hash2; or hash1 followed by hash2, each a copy of m_state (RMD<128>, RMD<160>)
locals(a, chain) == IF a \in {"RMD128", "RMD160"} THEN chain \o chain ELSE chain

\* the word of `locals` at which the array or view a statement names begins
offset(a, name) == IF name = "hash2" THEN view_size(a) ELSE 0

\* the value a round statement hands to unshift: rotl(...), to which RMD<160> and
\* RMD<320> add hash[4]
rotated(a, hash, value) ==
    IF a \in {"RMD160", "RMD320"} THEN Add(value, hash[5]) ELSE value

\* A faulty round statement: the sum is rotated right where the code rotates left.
lineRotatesRight(a, hash, block, step) ==
    unshift(a, hash,
            rotated(a, hash,
                    rotr(Add(Add(Add(hash[1], bop(step[2], hash[2], hash[3], hash[4])),
                                 step[3]),
                             WordAt(block, step[4], 4)),
                         step[5])))
\* A faulty round statement: the block word is converted from big-endian
\* before it is added.
lineConvertsBlockWord(a, hash, block, step) ==
    unshift(a, hash,
            rotated(a, hash,
                    rotl(Add(Add(Add(hash[1], bop(step[2], hash[2], hash[3], hash[4])),
                                 step[3]),
                             h2be(WordAt(block, step[4], 4))),
                         step[5])))
\* One statement
\*     unshift(hash, rotl(hash[0] + bop(hash[1], hash[2], hash[3]) + K + block[i], s));
\* on the view `hash`; step = <<array, bop, K, i, s>>
line(a, hash, block, step) ==
    unshift(a, hash,
            rotated(a, hash,
                    rotl(Add(Add(Add(hash[1], bop(step[2], hash[2], hash[3], hash[4])),
                                 step[3]),
                             WordAt(block, step[4], 4)),
                         step[5])))

\* A faulty swap: word1 = word2 without the temporary, so that nothing is
\* written back to the second line.
swapCopies(words, half, index) ==
    [words EXCEPT ![index + 1] = words[half + index + 1]]

\* A faulty exchange: the word of the second line is taken one position further.
swapNext(words, half, index) ==
    [words EXCEPT ![index + 1] = words[half + ((index + 1) % half) + 1],
                  ![half + ((index + 1) % half) + 1] = words[index + 1]]
\* swap(hash1[index], hash2[index]) on the two views of one array
swap(words, half, index) ==
    [words EXCEPT ![index + 1] = words[half + index + 1],
                  ![half + index + 1] = words[index + 1]]

\* one statement of a compress() body executed on the local arrays
statement(a, words, block, step) ==
    IF step[1] = "swap"
    THEN swap(words, view_size(a), step[2])
    ELSE SubSeq(words, 1, offset(a, step[1]))
            \o line(a, SubSeq(words, offset(a, step[1]) + 1,
                              offset(a, step[1]) + view_size(a)), block, step)
            \o SubSeq(words, offset(a, step[1]) + view_size(a) + 1, Len(words))

\* The round statements of each compress(), one entry per statement in source
\* order: <<array or view, boolean function, constant, block word, rotation>>,
\* or <<"swap", index>> for swap(hash1[index], hash2[index]).
MD4_steps ==
    << <<"state", "bop202", H32(\h00, \h00, \h00, \h00), 0, 3>>,
       <<"state", "bop202", H32(\h00, \h00, \h00, \h00), 1, 7>>,
       <<"state", "bop202", H32(\h00, \h00, \h00, \h00), 2, 11>>,
       <<"state", "bop202", H32(\h00, \h00, \h00, \h00), 3, 19>>,
       <<"state", "bop202", H32(\h00, \h00, \h00, \h00), 4, 3>>,
       <<"state", "bop202", H32(\h00, \h00, \h00, \h00), 5, 7>>,
       <<"state", "bop202", H32(\h00, \h00, \h00, \h00), 6, 11>>,
       <<"state", "bop202", H32(\h00, \h00, \h00, \h00), 7, 19>>,
       <<"state", "bop202", H32(\h00, \h00, \h00, \h00), 8, 3>>,
       <<"state", "bop202", H32(\h00, \h00, \h00, \h00), 9, 7>>,
       <<"state", "bop202", H32(\h00, \h00, \h00, \h00), 10, 11>>,
       <<"state", "bop202", H32(\h00, \h00, \h00, \h00), 11, 19>>,
       <<"state", "bop202", H32(\h00, \h00, \h00, \h00), 12, 3>>,
       <<"state", "bop202", H32(\h00, \h00, \h00, \h00), 13, 7>>,
       <<"state", "bop202", H32(\h00, \h00, \h00, \h00), 14, 11>>,
       <<"state", "bop202", H32(\h00, \h00, \h00, \h00), 15, 19>>,
       <<"state", "bop232", H32(\h5A, \h82, \h79, \h99), 0, 3>>,
       <<"state", "bop232", H32(\h5A, \h82, \h79, \h99), 4, 5>>,
       <<"state", "bop232", H32(\h5A, \h82, \h79, \h99), 8, 9>>,
       <<"state", "bop232", H32(\h5A, \h82, \h79, \h99), 12, 13>>,
       <<"state", "bop232", H32(\h5A, \h82, \h79, \h99), 1, 3>>,
       <<"state", "bop232", H32(\h5A, \h82, \h79, \h99), 5, 5>>,
       <<"state", "bop232", H32(\h5A, \h82, \h79, \h99), 9, 9>>,
       <<"state", "bop232", H32(\h5A, \h82, \h79, \h99), 13, 13>>,
       <<"state", "bop232", H32(\h5A, \h82, \h79, \h99), 2, 3>>,
       <<"state", "bop232", H32(\h5A, \h82, \h79, \h99), 6, 5>>,
       <<"state", "bop232", H32(\h5A, \h82, \h79, \h99), 10, 9>>,
       <<"state", "bop232", H32(\h5A, \h82, \h79, \h99), 14, 13>>,
       <<"state", "bop232", H32(\h5A, \h82, \h79, \h99), 3, 3>>,
       <<"state", "bop232", H32(\h5A, \h82, \h79, \h99), 7, 5>>,
       <<"state", "bop232", H32(\h5A, \h82, \h79, \h99), 11, 9>>,
       <<"state", "bop232", H32(\h5A, \h82, \h79, \h99), 15, 13>>,
       <<"state", "bop150", H32(\h6E, \hD9, \hEB, \hA1), 0, 3>>,
       <<"state", "bop150", H32(\h6E, \hD9, \hEB, \hA1), 8, 9>>,
       <<"state", "bop150", H32(\h6E, \hD9, \hEB, \hA1), 4, 11>>,
       <<"state", "bop150", H32(\h6E, \hD9, \hEB, \hA1), 12, 15>>,
       <<"state", "bop150", H32(\h6E, \hD9, \hEB, \hA1), 2, 3>>,
       <<"state", "bop150", H32(\h6E, \hD9, \hEB, \hA1), 10, 9>>,
       <<"state", "bop150", H32(\h6E, \hD9, \hEB, \hA1), 6, 11>>,
       <<"state", "bop150", H32(\h6E, \hD9, \hEB, \hA1), 14, 15>>,
       <<"state", "bop150", H32(\h6E, \hD9, \hEB, \hA1), 1, 3>>,
       <<"state", "bop150", H32(\h6E, \hD9, \hEB, \hA1), 9, 9>>,
       <<"state", "bop150", H32(\h6E, \hD9, \hEB, \hA1), 5, 11>>,
       <<"state", "bop150", H32(\h6E, \hD9, \hEB, \hA1), 13, 15>>,
       <<"state", "bop150", H32(\h6E, \hD9, \hEB, \hA1), 3, 3>>,
       <<"state", "bop150", H32(\h6E, \hD9, \hEB, \hA1), 11, 9>>,
       <<"state", "bop150", H32(\h6E, \hD9, \hEB, \hA1), 7, 11>>,
       <<"state", "bop150", H32(\h6E, \hD9, \hEB, \hA1), 15, 15>> >>

MD5_steps ==
    << <<"state", "bop202", H32(\hD7, \h6A, \hA4, \h78), 0, 7>>,
       <<"state", "bop202", H32(\hE8, \hC7, \hB7, \h56), 1, 12>>,
       <<"state", "bop202", H32(\h24, \h20, \h70, \hDB), 2, 17>>,
       <<"state", "bop202", H32(\hC1, \hBD, \hCE, \hEE), 3, 22>>,
       <<"state", "bop202", H32(\hF5, \h7C, \h0F, \hAF), 4, 7>>,
       <<"state", "bop202", H32(\h47, \h87, \hC6, \h2A), 5, 12>>,
       <<"state", "bop202", H32(\hA8, \h30, \h46, \h13), 6, 17>>,
       <<"state", "bop202", H32(\hFD, \h46, \h95, \h01), 7, 22>>,
       <<"state", "bop202", H32(\h69, \h80, \h98, \hD8), 8, 7>>,
       <<"state", "bop202", H32(\h8B, \h44, \hF7, \hAF), 9, 12>>,
       <<"state", "bop202", H32(\hFF, \hFF, \h5B, \hB1), 10, 17>>,
       <<"state", "bop202", H32(\h89, \h5C, \hD7, \hBE), 11, 22>>,
       <<"state", "bop202", H32(\h6B, \h90, \h11, \h22), 12, 7>>,
       <<"state", "bop202", H32(\hFD, \h98, \h71, \h93), 13, 12>>,
       <<"state", "bop202", H32(\hA6, \h79, \h43, \h8E), 14, 17>>,
       <<"state", "bop202", H32(\h49, \hB4, \h08, \h21), 15, 22>>,
       <<"state", "bop228", H32(\hF6, \h1E, \h25, \h62), 1, 5>>,
       <<"state", "bop228", H32(\hC0, \h40, \hB3, \h40), 6, 9>>,
       <<"state", "bop228", H32(\h26, \h5E, \h5A, \h51), 11, 14>>,
       <<"state", "bop228", H32(\hE9, \hB6, \hC7, \hAA), 0, 20>>,
       <<"state", "bop228", H32(\hD6, \h2F, \h10, \h5D), 5, 5>>,
       <<"state", "bop228", H32(\h02, \h44, \h14, \h53), 10, 9>>,
       <<"state", "bop228", H32(\hD8, \hA1, \hE6, \h81), 15, 14>>,
       <<"state", "bop228", H32(\hE7, \hD3, \hFB, \hC8), 4, 20>>,
       <<"state", "bop228", H32(\h21, \hE1, \hCD, \hE6), 9, 5>>,
       <<"state", "bop228", H32(\hC3, \h37, \h07, \hD6), 14, 9>>,
       <<"state", "bop228", H32(\hF4, \hD5, \h0D, \h87), 3, 14>>,
       <<"state", "bop228", H32(\h45, \h5A, \h14, \hED), 8, 20>>,
       <<"state", "bop228", H32(\hA9, \hE3, \hE9, \h05), 13, 5>>,
       <<"state", "bop228", H32(\hFC, \hEF, \hA3, \hF8), 2, 9>>,
       <<"state", "bop228", H32(\h67, \h6F, \h02, \hD9), 7, 14>>,
       <<"state", "bop228", H32(\h8D, \h2A, \h4C, \h8A), 12, 20>>,
       <<"state", "bop150", H32(\hFF, \hFA, \h39, \h42), 5, 4>>,
       <<"state", "bop150", H32(\h87, \h71, \hF6, \h81), 8, 11>>,
       <<"state", "bop150", H32(\h6D, \h9D, \h61, \h22), 11, 16>>,
       <<"state", "bop150", H32(\hFD, \hE5, \h38, \h0C), 14, 23>>,
       <<"state", "bop150", H32(\hA4, \hBE, \hEA, \h44), 1, 4>>,
       <<"state", "bop150", H32(\h4B, \hDE, \hCF, \hA9), 4, 11>>,
       <<"state", "bop150", H32(\hF6, \hBB, \h4B, \h60), 7, 16>>,
       <<"state", "bop150", H32(\hBE, \hBF, \hBC, \h70), 10, 23>>,
       <<"state", "bop150", H32(\h28, \h9B, \h7E, \hC6), 13, 4>>,
       <<"state", "bop150", H32(\hEA, \hA1, \h27, \hFA), 0, 11>>,
       <<"state", "bop150", H32(\hD4, \hEF, \h30, \h85), 3, 16>>,
       <<"state", "bop150", H32(\h04, \h88, \h1D, \h05), 6, 23>>,
       <<"state", "bop150", H32(\hD9, \hD4, \hD0, \h39), 9, 4>>,
       <<"state", "bop150", H32(\hE6, \hDB, \h99, \hE5), 12, 11>>,
       <<"state", "bop150", H32(\h1F, \hA2, \h7C, \hF8), 15, 16>>,
       <<"state", "bop150", H32(\hC4, \hAC, \h56, \h65), 2, 23>>,
       <<"state", "bop057", H32(\hF4, \h29, \h22, \h44), 0, 6>>,
       <<"state", "bop057", H32(\h43, \h2A, \hFF, \h97), 7, 10>>,
       <<"state", "bop057", H32(\hAB, \h94, \h23, \hA7), 14, 15>>,
       <<"state", "bop057", H32(\hFC, \h93, \hA0, \h39), 5, 21>>,
       <<"state", "bop057", H32(\h65, \h5B, \h59, \hC3), 12, 6>>,
       <<"state", "bop057", H32(\h8F, \h0C, \hCC, \h92), 3, 10>>,
       <<"state", "bop057", H32(\hFF, \hEF, \hF4, \h7D), 10, 15>>,
       <<"state", "bop057", H32(\h85, \h84, \h5D, \hD1), 1, 21>>,
       <<"state", "bop057", H32(\h6F, \hA8, \h7E, \h4F), 8, 6>>,
       <<"state", "bop057", H32(\hFE, \h2C, \hE6, \hE0), 15, 10>>,
       <<"state", "bop057", H32(\hA3, \h01, \h43, \h14), 6, 15>>,
       <<"state", "bop057", H32(\h4E, \h08, \h11, \hA1), 13, 21>>,
       <<"state", "bop057", H32(\hF7, \h53, \h7E, \h82), 4, 6>>,
       <<"state", "bop057", H32(\hBD, \h3A, \hF2, \h35), 11, 10>>,
       <<"state", "bop057", H32(\h2A, \hD7, \hD2, \hBB), 2, 15>>,
       <<"state", "bop057", H32(\hEB, \h86, \hD3, \h91), 9, 21>> >>

RMD128_steps ==
    << <<"hash1", "bop150", H32(\h00, \h00, \h00, \h00), 0, 11>>,
       <<"hash2", "bop228", H32(\h50, \hA2, \h8B, \hE6), 5, 8>>,
       <<"hash1", "bop150", H32(\h00, \h00, \h00, \h00), 1, 14>>,
       <<"hash2", "bop228", H32(\h50, \hA2, \h8B, \hE6), 14, 9>>,
       <<"hash1", "bop150", H32(\h00, \h00, \h00, \h00), 2, 15>>,
       <<"hash2", "bop228", H32(\h50, \hA2, \h8B, \hE6), 7, 9>>,
       <<"hash1", "bop150", H32(\h00, \h00, \h00, \h00), 3, 12>>,
       <<"hash2", "bop228", H32(\h50, \hA2, \h8B, \hE6), 0, 11>>,
       <<"hash1", "bop150", H32(\h00, \h00, \h00, \h00), 4, 5>>,
       <<"hash2", "bop228", H32(\h50, \hA2, \h8B, \hE6), 9, 13>>,
       <<"hash1", "bop150", H32(\h00, \h00, \h00, \h00), 5, 8>>,
       <<"hash2", "bop228", H32(\h50, \hA2, \h8B, \hE6), 2, 15>>,
       <<"hash1", "bop150", H32(\h00, \h00, \h00, \h00), 6, 7>>,
       <<"hash2", "bop228", H32(\h50, \hA2, \h8B, \hE6), 11, 15>>,
       <<"hash1", "bop150", H32(\h00, \h00, \h00, \h00), 7, 9>>,
       <<"hash2", "bop228", H32(\h50, \hA2, \h8B, \hE6), 4, 5>>,
       <<"hash1", "bop150", H32(\h00, \h00, \h00, \h00), 8, 11>>,
       <<"hash2", "bop228", H32(\h50, \hA2, \h8B, \hE6), 13, 7>>,
       <<"hash1", "bop150", H32(\h00, \h00, \h00, \h00), 9, 13>>,
       <<"hash2", "bop228", H32(\h50, \hA2, \h8B, \hE6), 6, 7>>,
       <<"hash1", "bop150", H32(\h00, \h00, \h00, \h00), 10, 14>>,
       <<"hash2", "bop228", H32(\h50, \hA2, \h8B, \hE6), 15, 8>>,
       <<"hash1", "bop150", H32(\h00, \h00, \h00, \h00), 11, 15>>,
       <<"hash2", "bop228", H32(\h50, \hA2, \h8B, \hE6), 8, 11>>,
       <<"hash1", "bop150", H32(\h00, \h00, \h00, \h00), 12, 6>>,
       <<"hash2", "bop228", H32(\h50, \hA2, \h8B, \hE6), 1, 14>>,
       <<"hash1", "bop150", H32(\h00, \h00, \h00, \h00), 13, 7>>,
       <<"hash2", "bop228", H32(\h50, \hA2, \h8B, \hE6), 10, 14>>,
       <<"hash1", "bop150", H32(\h00, \h00, \h00, \h00), 14, 9>>,
       <<"hash2", "bop228", H32(\h50, \hA2, \h8B, \hE6), 3, 12>>,
       <<"hash1", "bop150", H32(\h00, \h00, \h00, \h00), 15, 8>>,
       <<"hash2", "bop228", H32(\h50, \hA2, \h8B, \hE6), 12, 6>>,
       <<"hash1", "bop202", H32(\h5A, \h82, \h79, \h99), 7, 7>>,
       <<"hash2", "bop089", H32(\h5C, \h4D, \hD1, \h24), 6, 9>>,
       <<"hash1", "bop202", H32(\h5A, \h82, \h79, \h99), 4, 6>>,
       <<"hash2", "bop089", H32(\h5C, \h4D, \hD1, \h24), 11, 13>>,
       <<"hash1", "bop202", H32(\h5A, \h82, \h79, \h99), 13, 8>>,
       <<"hash2", "bop089", H32(\h5C, \h4D, \hD1, \h24), 3, 15>>,
       <<"hash1", "bop202", H32(\h5A, \h82, \h79, \h99), 1, 13>>,
       <<"hash2", "bop089", H32(\h5C, \h4D, \hD1, \h24), 7, 7>>,
       <<"hash1", "bop202", H32(\h5A, \h82, \h79, \h99), 10, 11>>,
       <<"hash2", "bop089", H32(\h5C, \h4D, \hD1, \h24), 0, 12>>,
       <<"hash1", "bop202", H32(\h5A, \h82, \h79, \h99), 6, 9>>,
       <<"hash2", "bop089", H32(\h5C, \h4D, \hD1, \h24), 13, 8>>,
       <<"hash1", "bop202", H32(\h5A, \h82, \h79, \h99), 15, 7>>,
       <<"hash2", "bop089", H32(\h5C, \h4D, \hD1, \h24), 5, 9>>,
       <<"hash1", "bop202", H32(\h5A, \h82, \h79, \h99), 3, 15>>,
       <<"hash2", "bop089", H32(\h5C, \h4D, \hD1, \h24), 10, 11>>,
       <<"hash1", "bop202", H32(\h5A, \h82, \h79, \h99), 12, 7>>,
       <<"hash2", "bop089", H32(\h5C, \h4D, \hD1, \h24), 14, 7>>,
       <<"hash1", "bop202", H32(\h5A, \h82, \h79, \h99), 0, 12>>,
       <<"hash2", "bop089", H32(\h5C, \h4D, \hD1, \h24), 15, 7>>,
       <<"hash1", "bop202", H32(\h5A, \h82, \h79, \h99), 9, 15>>,
       <<"hash2", "bop089", H32(\h5C, \h4D, \hD1, \h24), 8, 12>>,
       <<"hash1", "bop202", H32(\h5A, \h82, \h79, \h99), 5, 9>>,
       <<"hash2", "bop089", H32(\h5C, \h4D, \hD1, \h24), 12, 7>>,
       <<"hash1", "bop202", H32(\h5A, \h82, \h79, \h99), 2, 11>>,
       <<"hash2", "bop089", H32(\h5C, \h4D, \hD1, \h24), 4, 6>>,
       <<"hash1", "bop202", H32(\h5A, \h82, \h79, \h99), 14, 7>>,
       <<"hash2", "bop089", H32(\h5C, \h4D, \hD1, \h24), 9, 15>>,
       <<"hash1", "bop202", H32(\h5A, \h82, \h79, \h99), 11, 13>>,
       <<"hash2", "bop089", H32(\h5C, \h4D, \hD1, \h24), 1, 13>>,
       <<"hash1", "bop202", H32(\h5A, \h82, \h79, \h99), 8, 12>>,
       <<"hash2", "bop089", H32(\h5C, \h4D, \hD1, \h24), 2, 11>>,
       <<"hash1", "bop089", H32(\h6E, \hD9, \hEB, \hA1), 3, 11>>,
       <<"hash2", "bop202", H32(\h6D, \h70, \h3E, \hF3), 15, 9>>,
       <<"hash1", "bop089", H32(\h6E, \hD9, \hEB, \hA1), 10, 13>>,
       <<"hash2", "bop202", H32(\h6D, \h70, \h3E, \hF3), 5, 7>>,
       <<"hash1", "bop089", H32(\h6E, \hD9, \hEB, \hA1), 14, 6>>,
       <<"hash2", "bop202", H32(\h6D, \h70, \h3E, \hF3), 1, 15>>,
       <<"hash1", "bop089", H32(\h6E, \hD9, \hEB, \hA1), 4, 7>>,
       <<"hash2", "bop202", H32(\h6D, \h70, \h3E, \hF3), 3, 11>>,
       <<"hash1", "bop089", H32(\h6E, \hD9, \hEB, \hA1), 9, 14>>,
       <<"hash2", "bop202", H32(\h6D, \h70, \h3E, \hF3), 7, 8>>,
       <<"hash1", "bop089", H32(\h6E, \hD9, \hEB, \hA1), 15, 9>>,
       <<"hash2", "bop202", H32(\h6D, \h70, \h3E, \hF3), 14, 6>>,
       <<"hash1", "bop089", H32(\h6E, \hD9, \hEB, \hA1), 8, 13>>,
       <<"hash2", "bop202", H32(\h6D, \h70, \h3E, \hF3), 6, 6>>,
       <<"hash1", "bop089", H32(\h6E, \hD9, \hEB, \hA1), 1, 15>>,
       <<"hash2", "bop202", H32(\h6D, \h70, \h3E, \hF3), 9, 14>>,
       <<"hash1", "bop089", H32(\h6E, \hD9, \hEB, \hA1), 2, 14>>,
       <<"hash2", "bop202", H32(\h6D, \h70, \h3E, \hF3), 11, 12>>,
       <<"hash1", "bop089", H32(\h6E, \hD9, \hEB, \hA1), 7, 8>>,
       <<"hash2", "bop202", H32(\h6D, \h70, \h3E, \hF3), 8, 13>>,
       <<"hash1", "bop089", H32(\h6E, \hD9, \hEB, \hA1), 0, 13>>,
       <<"hash2", "bop202", H32(\h6D, \h70, \h3E, \hF3), 12, 5>>,
       <<"hash1", "bop089", H32(\h6E, \hD9, \hEB, \hA1), 6, 6>>,
       <<"hash2", "bop202", H32(\h6D, \h70, \h3E, \hF3), 2, 14>>,
       <<"hash1", "bop089", H32(\h6E, \hD9, \hEB, \hA1), 13, 5>>,
       <<"hash2", "bop202", H32(\h6D, \h70, \h3E, \hF3), 10, 13>>,
       <<"hash1", "bop089", H32(\h6E, \hD9, \hEB, \hA1), 11, 12>>,
       <<"hash2", "bop202", H32(\h6D, \h70, \h3E, \hF3), 0, 13>>,
       <<"hash1", "bop089", H32(\h6E, \hD9, \hEB, \hA1), 5, 7>>,
       <<"hash2", "bop202", H32(\h6D, \h70, \h3E, \hF3), 4, 7>>,
       <<"hash1", "bop089", H32(\h6E, \hD9, \hEB, \hA1), 12, 5>>,
       <<"hash2", "bop202", H32(\h6D, \h70, \h3E, \hF3), 13, 5>>,
       <<"hash1", "bop228", H32(\h8F, \h1B, \hBC, \hDC), 1, 11>>,
       <<"hash2", "bop150", H32(\h00, \h00, \h00, \h00), 8, 15>>,
       <<"hash1", "bop228", H32(\h8F, \h1B, \hBC, \hDC), 9, 12>>,
       <<"hash2", "bop150", H32(\h00, \h00, \h00, \h00), 6, 5>>,
       <<"hash1", "bop228", H32(\h8F, \h1B, \hBC, \hDC), 11, 14>>,
       <<"hash2", "bop150", H32(\h00, \h00, \h00, \h00), 4, 8>>,
       <<"hash1", "bop228", H32(\h8F, \h1B, \hBC, \hDC), 10, 15>>,
       <<"hash2", "bop150", H32(\h00, \h00, \h00, \h00), 1, 11>>,
       <<"hash1", "bop228", H32(\h8F, \h1B, \hBC, \hDC), 0, 14>>,
       <<"hash2", "bop150", H32(\h00, \h00, \h00, \h00), 3, 14>>,
       <<"hash1", "bop228", H32(\h8F, \h1B, \hBC, \hDC), 8, 15>>,
       <<"hash2", "bop150", H32(\h00, \h00, \h00, \h00), 11, 14>>,
       <<"hash1", "bop228", H32(\h8F, \h1B, \hBC, \hDC), 12, 9>>,
       <<"hash2", "bop150", H32(\h00, \h00, \h00, \h00), 15, 6>>,
       <<"hash1", "bop228", H32(\h8F, \h1B, \hBC, \hDC), 4, 8>>,
       <<"hash2", "bop150", H32(\h00, \h00, \h00, \h00), 0, 14>>,
       <<"hash1", "bop228", H32(\h8F, \h1B, \hBC, \hDC), 13, 9>>,
       <<"hash2", "bop150", H32(\h00, \h00, \h00, \h00), 5, 6>>,
       <<"hash1", "bop228", H32(\h8F, \h1B, \hBC, \hDC), 3, 14>>,
       <<"hash2", "bop150", H32(\h00, \h00, \h00, \h00), 12, 9>>,
       <<"hash1", "bop228", H32(\h8F, \h1B, \hBC, \hDC), 7, 5>>,
       <<"hash2", "bop150", H32(\h00, \h00, \h00, \h00), 2, 12>>,
       <<"hash1", "bop228", H32(\h8F, \h1B, \hBC, \hDC), 15, 6>>,
       <<"hash2", "bop150", H32(\h00, \h00, \h00, \h00), 13, 9>>,
       <<"hash1", "bop228", H32(\h8F, \h1B, \hBC, \hDC), 14, 8>>,
       <<"hash2", "bop150", H32(\h00, \h00, \h00, \h00), 9, 12>>,
       <<"hash1", "bop228", H32(\h8F, \h1B, \hBC, \hDC), 5, 6>>,
       <<"hash2", "bop150", H32(\h00, \h00, \h00, \h00), 7, 5>>,
       <<"hash1", "bop228", H32(\h8F, \h1B, \hBC, \hDC), 6, 5>>,
       <<"hash2", "bop150", H32(\h00, \h00, \h00, \h00), 10, 15>>,
       <<"hash1", "bop228", H32(\h8F, \h1B, \hBC, \hDC), 2, 12>>,
       <<"hash2", "bop150", H32(\h00, \h00, \h00, \h00), 14, 8>> >>

RMD160_steps ==
    << <<"hash1", "bop150", H32(\h00, \h00, \h00, \h00), 0, 11>>,
       <<"hash2", "bop045", H32(\h50, \hA2, \h8B, \hE6), 5, 8>>,
       <<"hash1", "bop150", H32(\h00, \h00, \h00, \h00), 1, 14>>,
       <<"hash2", "bop045", H32(\h50, \hA2, \h8B, \hE6), 14, 9>>,
       <<"hash1", "bop150", H32(\h00, \h00, \h00, \h00), 2, 15>>,
       <<"hash2", "bop045", H32(\h50, \hA2, \h8B, \hE6), 7, 9>>,
       <<"hash1", "bop150", H32(\h00, \h00, \h00, \h00), 3, 12>>,
       <<"hash2", "bop045", H32(\h50, \hA2, \h8B, \hE6), 0, 11>>,
       <<"hash1", "bop150", H32(\h00, \h00, \h00, \h00), 4, 5>>,
       <<"hash2", "bop045", H32(\h50, \hA2, \h8B, \hE6), 9, 13>>,
       <<"hash1", "bop150", H32(\h00, \h00, \h00, \h00), 5, 8>>,
       <<"hash2", "bop045", H32(\h50, \hA2, \h8B, \hE6), 2, 15>>,
       <<"hash1", "bop150", H32(\h00, \h00, \h00, \h00), 6, 7>>,
       <<"hash2", "bop045", H32(\h50, \hA2, \h8B, \hE6), 11, 15>>,
       <<"hash1", "bop150", H32(\h00, \h00, \h00, \h00), 7, 9>>,
       <<"hash2", "bop045", H32(\h50, \hA2, \h8B, \hE6), 4, 5>>,
       <<"hash1", "bop150", H32(\h00, \h00, \h00, \h00), 8, 11>>,
       <<"hash2", "bop045", H32(\h50, \hA2, \h8B, \hE6), 13, 7>>,
       <<"hash1", "bop150", H32(\h00, \h00, \h00, \h00), 9, 13>>,
       <<"hash2", "bop045", H32(\h50, \hA2, \h8B, \hE6), 6, 7>>,
       <<"hash1", "bop150", H32(\h00, \h00, \h00, \h00), 10, 14>>,
       <<"hash2", "bop045", H32(\h50, \hA2, \h8B, \hE6), 15, 8>>,
       <<"hash1", "bop150", H32(\h00, \h00, \h00, \h00), 11, 15>>,
       <<"hash2", "bop045", H32(\h50, \hA2, \h8B, \hE6), 8, 11>>,
       <<"hash1", "bop150", H32(\h00, \h00, \h00, \h00), 12, 6>>,
       <<"hash2", "bop045", H32(\h50, \hA2, \h8B, \hE6), 1, 14>>,
       <<"hash1", "bop150", H32(\h00, \h00, \h00, \h00), 13, 7>>,
       <<"hash2", "bop045", H32(\h50, \hA2, \h8B, \hE6), 10, 14>>,
       <<"hash1", "bop150", H32(\h00, \h00, \h00, \h00), 14, 9>>,
       <<"hash2", "bop045", H32(\h50, \hA2, \h8B, \hE6), 3, 12>>,
       <<"hash1", "bop150", H32(\h00, \h00, \h00, \h00), 15, 8>>,
       <<"hash2", "bop045", H32(\h50, \hA2, \h8B, \hE6), 12, 6>>,
       <<"hash1", "bop202", H32(\h5A, \h82, \h79, \h99), 7, 7>>,
       <<"hash2", "bop228", H32(\h5C, \h4D, \hD1, \h24), 6, 9>>,
       <<"hash1", "bop202", H32(\h5A, \h82, \h79, \h99), 4, 6>>,
       <<"hash2", "bop228", H32(\h5C, \h4D, \hD1, \h24), 11, 13>>,
       <<"hash1", "bop202", H32(\h5A, \h82, \h79, \h99), 13, 8>>,
       <<"hash2", "bop228", H32(\h5C, \h4D, \hD1, \h24), 3, 15>>,
       <<"hash1", "bop202", H32(\h5A, \h82, \h79, \h99), 1, 13>>,
       <<"hash2", "bop228", H32(\h5C, \h4D, \hD1, \h24), 7, 7>>,
       <<"hash1", "bop202", H32(\h5A, \h82, \h79, \h99), 10, 11>>,
       <<"hash2", "bop228", H32(\h5C, \h4D, \hD1, \h24), 0, 12>>,
       <<"hash1", "bop202", H32(\h5A, \h82, \h79, \h99), 6, 9>>,
       <<"hash2", "bop228", H32(\h5C, \h4D, \hD1, \h24), 13, 8>>,
       <<"hash1", "bop202", H32(\h5A, \h82, \h79, \h99), 15, 7>>,
       <<"hash2", "bop228", H32(\h5C, \h4D, \hD1, \h24), 5, 9>>,
       <<"hash1", "bop202", H32(\h5A, \h82, \h79, \h99), 3, 15>>,
       <<"hash2", "bop228", H32(\h5C, \h4D, \hD1, \h24), 10, 11>>,
       <<"hash1", "bop202", H32(\h5A, \h82, \h79, \h99), 12, 7>>,
       <<"hash2", "bop228", H32(\h5C, \h4D, \hD1, \h24), 14, 7>>,
       <<"hash1", "bop202", H32(\h5A, \h82, \h79, \h99), 0, 12>>,
       <<"hash2", "bop228", H32(\h5C, \h4D, \hD1, \h24), 15, 7>>,
       <<"hash1", "bop202", H32(\h5A, \h82, \h79, \h99), 9, 15>>,
       <<"hash2", "bop228", H32(\h5C, \h4D, \hD1, \h24), 8, 12>>,
       <<"hash1", "bop202", H32(\h5A, \h82, \h79, \h99), 5, 9>>,
       <<"hash2", "bop228", H32(\h5C, \h4D, \hD1, \h24), 12, 7>>,
       <<"hash1", "bop202", H32(\h5A, \h82, \h79, \h99), 2, 11>>,
       <<"hash2", "bop228", H32(\h5C, \h4D, \hD1, \h24), 4, 6>>,
       <<"hash1", "bop202", H32(\h5A, \h82, \h79, \h99), 14, 7>>,
       <<"hash2", "bop228", H32(\h5C, \h4D, \hD1, \h24), 9, 15>>,
       <<"hash1", "bop202", H32(\h5A, \h82, \h79, \h99), 11, 13>>,
       <<"hash2", "bop228", H32(\h5C, \h4D, \hD1, \h24), 1, 13>>,
       <<"hash1", "bop202", H32(\h5A, \h82, \h79, \h99), 8, 12>>,
       <<"hash2", "bop228", H32(\h5C, \h4D, \hD1, \h24), 2, 11>>,
       <<"hash1", "bop089", H32(\h6E, \hD9, \hEB, \hA1), 3, 11>>,
       <<"hash2", "bop089", H32(\h6D, \h70, \h3E, \hF3), 15, 9>>,
       <<"hash1", "bop089", H32(\h6E, \hD9, \hEB, \hA1), 10, 13>>,
       <<"hash2", "bop089", H32(\h6D, \h70, \h3E, \hF3), 5, 7>>,
       <<"hash1", "bop089", H32(\h6E, \hD9, \hEB, \hA1), 14, 6>>,
       <<"hash2", "bop089", H32(\h6D, \h70, \h3E, \hF3), 1, 15>>,
       <<"hash1", "bop089", H32(\h6E, \hD9, \hEB, \hA1), 4, 7>>,
       <<"hash2", "bop089", H32(\h6D, \h70, \h3E, \hF3), 3, 11>>,
       <<"hash1", "bop089", H32(\h6E, \hD9, \hEB, \hA1), 9, 14>>,
       <<"hash2", "bop089", H32(\h6D, \h70, \h3E, \hF3), 7, 8>>,
       <<"hash1", "bop089", H32(\h6E, \hD9, \hEB, \hA1), 15, 9>>,
       <<"hash2", "bop089", H32(\h6D, \h70, \h3E, \hF3), 14, 6>>,
       <<"hash1", "bop089", H32(\h6E, \hD9, \hEB, \hA1), 8, 13>>,
       <<"hash2", "bop089", H32(\h6D, \h70, \h3E, \hF3), 6, 6>>,
       <<"hash1", "bop089", H32(\h6E, \hD9, \hEB, \hA1), 1, 15>>,
       <<"hash2", "bop089", H32(\h6D, \h70, \h3E, \hF3), 9, 14>>,
       <<"hash1", "bop089", H32(\h6E, \hD9, \hEB, \hA1), 2, 14>>,
       <<"hash2", "bop089", H32(\h6D, \h70, \h3E, \hF3), 11, 12>>,
       <<"hash1", "bop089", H32(\h6E, \hD9, \hEB, \hA1), 7, 8>>,
       <<"hash2", "bop089", H32(\h6D, \h70, \h3E, \hF3), 8, 13>>,
       <<"hash1", "bop089", H32(\h6E, \hD9, \hEB, \hA1), 0, 13>>,
       <<"hash2", "bop089", H32(\h6D, \h70, \h3E, \hF3), 12, 5>>,
       <<"hash1", "bop089", H32(\h6E, \hD9, \hEB, \hA1), 6, 6>>,
       <<"hash2", "bop089", H32(\h6D, \h70, \h3E, \hF3), 2, 14>>,
       <<"hash1", "bop089", H32(\h6E, \hD9, \hEB, \hA1), 13, 5>>,
       <<"hash2", "bop089", H32(\h6D, \h70, \h3E, \hF3), 10, 13>>,
       <<"hash1", "bop089", H32(\h6E, \hD9, \hEB, \hA1), 11, 12>>,
       <<"hash2", "bop089", H32(\h6D, \h70, \h3E, \hF3), 0, 13>>,
       <<"hash1", "bop089", H32(\h6E, \hD9, \hEB, \hA1), 5, 7>>,
       <<"hash2", "bop089", H32(\h6D, \h70, \h3E, \hF3), 4, 7>>,
       <<"hash1", "bop089", H32(\h6E, \hD9, \hEB, \hA1), 12, 5>>,
       <<"hash2", "bop089", H32(\h6D, \h70, \h3E, \hF3), 13, 5>>,
       <<"hash1", "bop228", H32(\h8F, \h1B, \hBC, \hDC), 1, 11>>,
       <<"hash2", "bop202", H32(\h7A, \h6D, \h76, \hE9), 8, 15>>,
       <<"hash1", "bop228", H32(\h8F, \h1B, \hBC, \hDC), 9, 12>>,
       <<"hash2", "bop202", H32(\h7A, \h6D, \h76, \hE9), 6, 5>>,
       <<"hash1", "bop228", H32(\h8F, \h1B, \hBC, \hDC), 11, 14>>,
       <<"hash2", "bop202", H32(\h7A, \h6D, \h76, \hE9), 4, 8>>,
       <<"hash1", "bop228", H32(\h8F, \h1B, \hBC, \hDC), 10, 15>>,
       <<"hash2", "bop202", H32(\h7A, \h6D, \h76, \hE9), 1, 11>>,
       <<"hash1", "bop228", H32(\h8F, \h1B, \hBC, \hDC), 0, 14>>,
       <<"hash2", "bop202", H32(\h7A, \h6D, \h76, \hE9), 3, 14>>,
       <<"hash1", "bop228", H32(\h8F, \h1B, \hBC, \hDC), 8, 15>>,
       <<"hash2", "bop202", H32(\h7A, \h6D, \h76, \hE9), 11, 14>>,
       <<"hash1", "bop228", H32(\h8F, \h1B, \hBC, \hDC), 12, 9>>,
       <<"hash2", "bop202", H32(\h7A, \h6D, \h76, \hE9), 15, 6>>,
       <<"hash1", "bop228", H32(\h8F, \h1B, \hBC, \hDC), 4, 8>>,
       <<"hash2", "bop202", H32(\h7A, \h6D, \h76, \hE9), 0, 14>>,
       <<"hash1", "bop228", H32(\h8F, \h1B, \hBC, \hDC), 13, 9>>,
       <<"hash2", "bop202", H32(\h7A, \h6D, \h76, \hE9), 5, 6>>,
       <<"hash1", "bop228", H32(\h8F, \h1B, \hBC, \hDC), 3, 14>>,
       <<"hash2", "bop202", H32(\h7A, \h6D, \h76, \hE9), 12, 9>>,
       <<"hash1", "bop228", H32(\h8F, \h1B, \hBC, \hDC), 7, 5>>,
       <<"hash2", "bop202", H32(\h7A, \h6D, \h76, \hE9), 2, 12>>,
       <<"hash1", "bop228", H32(\h8F, \h1B, \hBC, \hDC), 15, 6>>,
       <<"hash2", "bop202", H32(\h7A, \h6D, \h76, \hE9), 13, 9>>,
       <<"hash1", "bop228", H32(\h8F, \h1B, \hBC, \hDC), 14, 8>>,
       <<"hash2", "bop202", H32(\h7A, \h6D, \h76, \hE9), 9, 12>>,
       <<"hash1", "bop228", H32(\h8F, \h1B, \hBC, \hDC), 5, 6>>,
       <<"hash2", "bop202", H32(\h7A, \h6D, \h76, \hE9), 7, 5>>,
       <<"hash1", "bop228", H32(\h8F, \h1B, \hBC, \hDC), 6, 5>>,
       <<"hash2", "bop202", H32(\h7A, \h6D, \h76, \hE9), 10, 15>>,
       <<"hash1", "bop228", H32(\h8F, \h1B, \hBC, \hDC), 2, 12>>,
       <<"hash2", "bop202", H32(\h7A, \h6D, \h76, \hE9), 14, 8>>,
       <<"hash1", "bop045", H32(\hA9, \h53, \hFD, \h4E), 4, 9>>,
       <<"hash2", "bop150", H32(\h00, \h00, \h00, \h00), 12, 8>>,
       <<"hash1", "bop045", H32(\hA9, \h53, \hFD, \h4E), 0, 15>>,
       <<"hash2", "bop150", H32(\h00, \h00, \h00, \h00), 15, 5>>,
       <<"hash1", "bop045", H32(\hA9, \h53, \hFD, \h4E), 5, 5>>,
       <<"hash2", "bop150", H32(\h00, \h00, \h00, \h00), 10, 12>>,
       <<"hash1", "bop045", H32(\hA9, \h53, \hFD, \h4E), 9, 11>>,
       <<"hash2", "bop150", H32(\h00, \h00, \h00, \h00), 4, 9>>,
       <<"hash1", "bop045", H32(\hA9, \h53, \hFD, \h4E), 7, 6>>,
       <<"hash2", "bop150", H32(\h00, \h00, \h00, \h00), 1, 12>>,
       <<"hash1", "bop045", H32(\hA9, \h53, \hFD, \h4E), 12, 8>>,
       <<"hash2", "bop150", H32(\h00, \h00, \h00, \h00), 5, 5>>,
       <<"hash1", "bop045", H32(\hA9, \h53, \hFD, \h4E), 2, 13>>,
       <<"hash2", "bop150", H32(\h00, \h00, \h00, \h00), 8, 14>>,
       <<"hash1", "bop045", H32(\hA9, \h53, \hFD, \h4E), 10, 12>>,
       <<"hash2", "bop150", H32(\h00, \h00, \h00, \h00), 7, 6>>,
       <<"hash1", "bop045", H32(\hA9, \h53, \hFD, \h4E), 14, 5>>,
       <<"hash2", "bop150", H32(\h00, \h00, \h00, \h00), 6, 8>>,
       <<"hash1", "bop045", H32(\hA9, \h53, \hFD, \h4E), 1, 12>>,
       <<"hash2", "bop150", H32(\h00, \h00, \h00, \h00), 2, 13>>,
       <<"hash1", "bop045", H32(\hA9, \h53, \hFD, \h4E), 3, 13>>,
       <<"hash2", "bop150", H32(\h00, \h00, \h00, \h00), 13, 6>>,
       <<"hash1", "bop045", H32(\hA9, \h53, \hFD, \h4E), 8, 14>>,
       <<"hash2", "bop150", H32(\h00, \h00, \h00, \h00), 14, 5>>,
       <<"hash1", "bop045", H32(\hA9, \h53, \hFD, \h4E), 11, 11>>,
       <<"hash2", "bop150", H32(\h00, \h00, \h00, \h00), 0, 15>>,
       <<"hash1", "bop045", H32(\hA9, \h53, \hFD, \h4E), 6, 8>>,
       <<"hash2", "bop150", H32(\h00, \h00, \h00, \h00), 3, 13>>,
       <<"hash1", "bop045", H32(\hA9, \h53, \hFD, \h4E), 15, 5>>,
       <<"hash2", "bop150", H32(\h00, \h00, \h00, \h00), 9, 11>>,
       <<"hash1", "bop045", H32(\hA9, \h53, \hFD, \h4E), 13, 6>>,
       <<"hash2", "bop150", H32(\h00, \h00, \h00, \h00), 11, 11>> >>

RMD256_steps ==
    << <<"hash1", "bop150", H32(\h00, \h00, \h00, \h00), 0, 11>>,
       <<"hash2", "bop228", H32(\h50, \hA2, \h8B, \hE6), 5, 8>>,
       <<"hash1", "bop150", H32(\h00, \h00, \h00, \h00), 1, 14>>,
       <<"hash2", "bop228", H32(\h50, \hA2, \h8B, \hE6), 14, 9>>,
       <<"hash1", "bop150", H32(\h00, \h00, \h00, \h00), 2, 15>>,
       <<"hash2", "bop228", H32(\h50, \hA2, \h8B, \hE6), 7, 9>>,
       <<"hash1", "bop150", H32(\h00, \h00, \h00, \h00), 3, 12>>,
       <<"hash2", "bop228", H32(\h50, \hA2, \h8B, \hE6), 0, 11>>,
       <<"hash1", "bop150", H32(\h00, \h00, \h00, \h00), 4, 5>>,
       <<"hash2", "bop228", H32(\h50, \hA2, \h8B, \hE6), 9, 13>>,
       <<"hash1", "bop150", H32(\h00, \h00, \h00, \h00), 5, 8>>,
       <<"hash2", "bop228", H32(\h50, \hA2, \h8B, \hE6), 2, 15>>,
       <<"hash1", "bop150", H32(\h00, \h00, \h00, \h00), 6, 7>>,
       <<"hash2", "bop228", H32(\h50, \hA2, \h8B, \hE6), 11, 15>>,
       <<"hash1", "bop150", H32(\h00, \h00, \h00, \h00), 7, 9>>,
       <<"hash2", "bop228", H32(\h50, \hA2, \h8B, \hE6), 4, 5>>,
       <<"hash1", "bop150", H32(\h00, \h00, \h00, \h00), 8, 11>>,
       <<"hash2", "bop228", H32(\h50, \hA2, \h8B, \hE6), 13, 7>>,
       <<"hash1", "bop150", H32(\h00, \h00, \h00, \h00), 9, 13>>,
       <<"hash2", "bop228", H32(\h50, \hA2, \h8B, \hE6), 6, 7>>,
       <<"hash1", "bop150", H32(\h00, \h00, \h00, \h00), 10, 14>>,
       <<"hash2", "bop228", H32(\h50, \hA2, \h8B, \hE6), 15, 8>>,
       <<"hash1", "bop150", H32(\h00, \h00, \h00, \h00), 11, 15>>,
       <<"hash2", "bop228", H32(\h50, \hA2, \h8B, \hE6), 8, 11>>,
       <<"hash1", "bop150", H32(\h00, \h00, \h00, \h00), 12, 6>>,
       <<"hash2", "bop228", H32(\h50, \hA2, \h8B, \hE6), 1, 14>>,
       <<"hash1", "bop150", H32(\h00, \h00, \h00, \h00), 13, 7>>,
       <<"hash2", "bop228", H32(\h50, \hA2, \h8B, \hE6), 10, 14>>,
       <<"hash1", "bop150", H32(\h00, \h00, \h00, \h00), 14, 9>>,
       <<"hash2", "bop228", H32(\h50, \hA2, \h8B, \hE6), 3, 12>>,
       <<"hash1", "bop150", H32(\h00, \h00, \h00, \h00), 15, 8>>,
       <<"hash2", "bop228", H32(\h50, \hA2, \h8B, \hE6), 12, 6>>,
       <<"swap", 0>>,
       <<"hash1", "bop202", H32(\h5A, \h82, \h79, \h99), 7, 7>>,
       <<"hash2", "bop089", H32(\h5C, \h4D, \hD1, \h24), 6, 9>>,
       <<"hash1", "bop202", H32(\h5A, \h82, \h79, \h99), 4, 6>>,
       <<"hash2", "bop089", H32(\h5C, \h4D, \hD1, \h24), 11, 13>>,
       <<"hash1", "bop202", H32(\h5A, \h82, \h79, \h99), 13, 8>>,
       <<"hash2", "bop089", H32(\h5C, \h4D, \hD1, \h24), 3, 15>>,
       <<"hash1", "bop202", H32(\h5A, \h82, \h79, \h99), 1, 13>>,
       <<"hash2", "bop089", H32(\h5C, \h4D, \hD1, \h24), 7, 7>>,
       <<"hash1", "bop202", H32(\h5A, \h82, \h79, \h99), 10, 11>>,
       <<"hash2", "bop089", H32(\h5C, \h4D, \hD1, \h24), 0, 12>>,
       <<"hash1", "bop202", H32(\h5A, \h82, \h79, \h99), 6, 9>>,
       <<"hash2", "bop089", H32(\h5C, \h4D, \hD1, \h24), 13, 8>>,
       <<"hash1", "bop202", H32(\h5A, \h82, \h79, \h99), 15, 7>>,
       <<"hash2", "bop089", H32(\h5C, \h4D, \hD1, \h24), 5, 9>>,
       <<"hash1", "bop202", H32(\h5A, \h82, \h79, \h99), 3, 15>>,
       <<"hash2", "bop089", H32(\h5C, \h4D, \hD1, \h24), 10, 11>>,
       <<"hash1", "bop202", H32(\h5A, \h82, \h79, \h99), 12, 7>>,
       <<"hash2", "bop089", H32(\h5C, \h4D, \hD1, \h24), 14, 7>>,
       <<"hash1", "bop202", H32(\h5A, \h82, \h79, \h99), 0, 12>>,
       <<"hash2", "bop089", H32(\h5C, \h4D, \hD1, \h24), 15, 7>>,
       <<"hash1", "bop202", H32(\h5A, \h82, \h79, \h99), 9, 15>>,
       <<"hash2", "bop089", H32(\h5C, \h4D, \hD1, \h24), 8, 12>>,
       <<"hash1", "bop202", H32(\h5A, \h82, \h79, \h99), 5, 9>>,
       <<"hash2", "bop089", H32(\h5C, \h4D, \hD1, \h24), 12, 7>>,
       <<"hash1", "bop202", H32(\h5A, \h82, \h79, \h99), 2, 11>>,
       <<"hash2", "bop089", H32(\h5C, \h4D, \hD1, \h24), 4, 6>>,
       <<"hash1", "bop202", H32(\h5A, \h82, \h79, \h99), 14, 7>>,
       <<"hash2", "bop089", H32(\h5C, \h4D, \hD1, \h24), 9, 15>>,
       <<"hash1", "bop202", H32(\h5A, \h82, \h79, \h99), 11, 13>>,
       <<"hash2", "bop089", H32(\h5C, \h4D, \hD1, \h24), 1, 13>>,
       <<"hash1", "bop202", H32(\h5A, \h82, \h79, \h99), 8, 12>>,
       <<"hash2", "bop089", H32(\h5C, \h4D, \hD1, \h24), 2, 11>>,
       <<"swap", 1>>,
       <<"hash1", "bop089", H32(\h6E, \hD9, \hEB, \hA1), 3, 11>>,
       <<"hash2", "bop202", H32(\h6D, \h70, \h3E, \hF3), 15, 9>>,
       <<"hash1", "bop089", H32(\h6E, \hD9, \hEB, \hA1), 10, 13>>,
       <<"hash2", "bop202", H32(\h6D, \h70, \h3E, \hF3), 5, 7>>,
       <<"hash1", "bop089", H32(\h6E, \hD9, \hEB, \hA1), 14, 6>>,
       <<"hash2", "bop202", H32(\h6D, \h70, \h3E, \hF3), 1, 15>>,
       <<"hash1", "bop089", H32(\h6E, \hD9, \hEB, \hA1), 4, 7>>,
       <<"hash2", "bop202", H32(\h6D, \h70, \h3E, \hF3), 3, 11>>,
       <<"hash1", "bop089", H32(\h6E, \hD9, \hEB, \hA1), 9, 14>>,
       <<"hash2", "bop202", H32(\h6D, \h70, \h3E, \hF3), 7, 8>>,
       <<"hash1", "bop089", H32(\h6E, \hD9, \hEB, \hA1), 15, 9>>,
       <<"hash2", "bop202", H32(\h6D, \h70, \h3E, \hF3), 14, 6>>,
       <<"hash1", "bop089", H32(\h6E, \hD9, \hEB, \hA1), 8, 13>>,
       <<"hash2", "bop202", H32(\h6D, \h70, \h3E, \hF3), 6, 6>>,
       <<"hash1", "bop089", H32(\h6E, \hD9, \hEB, \hA1), 1, 15>>,
       <<"hash2", "bop202", H32(\h6D, \h70, \h3E, \hF3), 9, 14>>,
       <<"hash1", "bop089", H32(\h6E, \hD9, \hEB, \hA1), 2, 14>>,
       <<"hash2", "bop202", H32(\h6D, \h70, \h3E, \hF3), 11, 12>>,
       <<"hash1", "bop089", H32(\h6E, \hD9, \hEB, \hA1), 7, 8>>,
       <<"hash2", "bop202", H32(\h6D, \h70, \h3E, \hF3), 8, 13>>,
       <<"hash1", "bop089", H32(\h6E, \hD9, \hEB, \hA1), 0, 13>>,
       <<"hash2", "bop202", H32(\h6D, \h70, \h3E, \hF3), 12, 5>>,
       <<"hash1", "bop089", H32(\h6E, \hD9, \hEB, \hA1), 6, 6>>,
       <<"hash2", "bop202", H32(\h6D, \h70, \h3E, \hF3), 2, 14>>,
       <<"hash1", "bop089", H32(\h6E, \hD9, \hEB, \hA1), 13, 5>>,
       <<"hash2", "bop202", H32(\h6D, \h70, \h3E, \hF3), 10, 13>>,
       <<"hash1", "bop089", H32(\h6E, \hD9, \hEB, \hA1), 11, 12>>,
       <<"hash2", "bop202", H32(\h6D, \h70, \h3E, \hF3), 0, 13>>,
       <<"hash1", "bop089", H32(\h6E, \hD9, \hEB, \hA1), 5, 7>>,
       <<"hash2", "bop202", H32(\h6D, \h70, \h3E, \hF3), 4, 7>>,
       <<"hash1", "bop089", H32(\h6E, \hD9, \hEB, \hA1), 12, 5>>,
       <<"hash2", "bop202", H32(\h6D, \h70, \h3E, \hF3), 13, 5>>,
       <<"swap", 2>>,
       <<"hash1", "bop228", H32(\h8F, \h1B, \hBC, \hDC), 1, 11>>,
       <<"hash2", "bop150", H32(\h00, \h00, \h00, \h00), 8, 15>>,
       <<"hash1", "bop228", H32(\h8F, \h1B, \hBC, \hDC), 9, 12>>,
       <<"hash2", "bop150", H32(\h00, \h00, \h00, \h00), 6, 5>>,
       <<"hash1", "bop228", H32(\h8F, \h1B, \hBC, \hDC), 11, 14>>,
       <<"hash2", "bop150", H32(\h00, \h00, \h00, \h00), 4, 8>>,
       <<"hash1", "bop228", H32(\h8F, \h1B, \hBC, \hDC), 10, 15>>,
       <<"hash2", "bop150", H32(\h00, \h00, \h00, \h00), 1, 11>>,
       <<"hash1", "bop228", H32(\h8F, \h1B, \hBC, \hDC), 0, 14>>,
       <<"hash2", "bop150", H32(\h00, \h00, \h00, \h00), 3, 14>>,
       <<"hash1", "bop228", H32(\h8F, \h1B, \hBC, \hDC), 8, 15>>,
       <<"hash2", "bop150", H32(\h00, \h00, \h00, \h00), 11, 14>>,
       <<"hash1", "bop228", H32(\h8F, \h1B, \hBC, \hDC), 12, 9>>,
       <<"hash2", "bop150", H32(\h00, \h00, \h00, \h00), 15, 6>>,
       <<"hash1", "bop228", H32(\h8F, \h1B, \hBC, \hDC), 4, 8>>,
       <<"hash2", "bop150", H32(\h00, \h00, \h00, \h00), 0, 14>>,
       <<"hash1", "bop228", H32(\h8F, \h1B, \hBC, \hDC), 13, 9>>,
       <<"hash2", "bop150", H32(\h00, \h00, \h00, \h00), 5, 6>>,
       <<"hash1", "bop228", H32(\h8F, \h1B, \hBC, \hDC), 3, 14>>,
       <<"hash2", "bop150", H32(\h00, \h00, \h00, \h00), 12, 9>>,
       <<"hash1", "bop228", H32(\h8F, \h1B, \hBC, \hDC), 7, 5>>,
       <<"hash2", "bop150", H32(\h00, \h00, \h00, \h00), 2, 12>>,
       <<"hash1", "bop228", H32(\h8F, \h1B, \hBC, \hDC), 15, 6>>,
       <<"hash2", "bop150", H32(\h00, \h00, \h00, \h00), 13, 9>>,
       <<"hash1", "bop228", H32(\h8F, \h1B, \hBC, \hDC), 14, 8>>,
       <<"hash2", "bop150", H32(\h00, \h00, \h00, \h00), 9, 12>>,
       <<"hash1", "bop228", H32(\h8F, \h1B, \hBC, \hDC), 5, 6>>,
       <<"hash2", "bop150", H32(\h00, \h00, \h00, \h00), 7, 5>>,
       <<"hash1", "bop228", H32(\h8F, \h1B, \hBC, \hDC), 6, 5>>,
       <<"hash2", "bop150", H32(\h00, \h00, \h00, \h00), 10, 15>>,
       <<"hash1", "bop228", H32(\h8F, \h1B, \hBC, \hDC), 2, 12>>,
       <<"hash2", "bop150", H32(\h00, \h00, \h00, \h00), 14, 8>>,
       <<"swap", 3>> >>

RMD320_steps ==
    << <<"hash1", "bop150", H32(\h00, \h00, \h00, \h00), 0, 11>>,
       <<"hash2", "bop045", H32(\h50, \hA2, \h8B, \hE6), 5, 8>>,
       <<"hash1", "bop150", H32(\h00, \h00, \h00, \h00), 1, 14>>,
       <<"hash2", "bop045", H32(\h50, \hA2, \h8B, \hE6), 14, 9>>,
       <<"hash1", "bop150", H32(\h00, \h00, \h00, \h00), 2, 15>>,
       <<"hash2", "bop045", H32(\h50, \hA2, \h8B, \hE6), 7, 9>>,
       <<"hash1", "bop150", H32(\h00, \h00, \h00, \h00), 3, 12>>,
       <<"hash2", "bop045", H32(\h50, \hA2, \h8B, \hE6), 0, 11>>,
       <<"hash1", "bop150", H32(\h00, \h00, \h00, \h00), 4, 5>>,
       <<"hash2", "bop045", H32(\h50, \hA2, \h8B, \hE6), 9, 13>>,
       <<"hash1", "bop150", H32(\h00, \h00, \h00, \h00), 5, 8>>,
       <<"hash2", "bop045", H32(\h50, \hA2, \h8B, \hE6), 2, 15>>,
       <<"hash1", "bop150", H32(\h00, \h00, \h00, \h00), 6, 7>>,
       <<"hash2", "bop045", H32(\h50, \hA2, \h8B, \hE6), 11, 15>>,
       <<"hash1", "bop150", H32(\h00, \h00, \h00, \h00), 7, 9>>,
       <<"hash2", "bop045", H32(\h50, \hA2, \h8B, \hE6), 4, 5>>,
       <<"hash1", "bop150", H32(\h00, \h00, \h00, \h00), 8, 11>>,
       <<"hash2", "bop045", H32(\h50, \hA2, \h8B, \hE6), 13, 7>>,
       <<"hash1", "bop150", H32(\h00, \h00, \h00, \h00), 9, 13>>,
       <<"hash2", "bop045", H32(\h50, \hA2, \h8B, \hE6), 6, 7>>,
       <<"hash1", "bop150", H32(\h00, \h00, \h00, \h00), 10, 14>>,
       <<"hash2", "bop045", H32(\h50, \hA2, \h8B, \hE6), 15, 8>>,
       <<"hash1", "bop150", H32(\h00, \h00, \h00, \h00), 11, 15>>,
       <<"hash2", "bop045", H32(\h50, \hA2, \h8B, \hE6), 8, 11>>,
       <<"hash1", "bop150", H32(\h00, \h00, \h00, \h00), 12, 6>>,
       <<"hash2", "bop045", H32(\h50, \hA2, \h8B, \hE6), 1, 14>>,
       <<"hash1", "bop150", H32(\h00, \h00, \h00, \h00), 13, 7>>,
       <<"hash2", "bop045", H32(\h50, \hA2, \h8B, \hE6), 10, 14>>,
       <<"hash1", "bop150", H32(\h00, \h00, \h00, \h00), 14, 9>>,
       <<"hash2", "bop045", H32(\h50, \hA2, \h8B, \hE6), 3, 12>>,
       <<"hash1", "bop150", H32(\h00, \h00, \h00, \h00), 15, 8>>,
       <<"hash2", "bop045", H32(\h50, \hA2, \h8B, \hE6), 12, 6>>,
       <<"swap", 1>>,
       <<"hash1", "bop202", H32(\h5A, \h82, \h79, \h99), 7, 7>>,
       <<"hash2", "bop228", H32(\h5C, \h4D, \hD1, \h24), 6, 9>>,
       <<"hash1", "bop202", H32(\h5A, \h82, \h79, \h99), 4, 6>>,
       <<"hash2", "bop228", H32(\h5C, \h4D, \hD1, \h24), 11, 13>>,
       <<"hash1", "bop202", H32(\h5A, \h82, \h79, \h99), 13, 8>>,
       <<"hash2", "bop228", H32(\h5C, \h4D, \hD1, \h24), 3, 15>>,
       <<"hash1", "bop202", H32(\h5A, \h82, \h79, \h99), 1, 13>>,
       <<"hash2", "bop228", H32(\h5C, \h4D, \hD1, \h24), 7, 7>>,
       <<"hash1", "bop202", H32(\h5A, \h82, \h79, \h99), 10, 11>>,
       <<"hash2", "bop228", H32(\h5C, \h4D, \hD1, \h24), 0, 12>>,
       <<"hash1", "bop202", H32(\h5A, \h82, \h79, \h99), 6, 9>>,
       <<"hash2", "bop228", H32(\h5C, \h4D, \hD1, \h24), 13, 8>>,
       <<"hash1", "bop202", H32(\h5A, \h82, \h79, \h99), 15, 7>>,
       <<"hash2", "bop228", H32(\h5C, \h4D, \hD1, \h24), 5, 9>>,
       <<"hash1", "bop202", H32(\h5A, \h82, \h79, \h99), 3, 15>>,
       <<"hash2", "bop228", H32(\h5C, \h4D, \hD1, \h24), 10, 11>>,
       <<"hash1", "bop202", H32(\h5A, \h82, \h79, \h99), 12, 7>>,
       <<"hash2", "bop228", H32(\h5C, \h4D, \hD1, \h24), 14, 7>>,
       <<"hash1", "bop202", H32(\h5A, \h82, \h79, \h99), 0, 12>>,
       <<"hash2", "bop228", H32(\h5C, \h4D, \hD1, \h24), 15, 7>>,
       <<"hash1", "bop202", H32(\h5A, \h82, \h79, \h99), 9, 15>>,
       <<"hash2", "bop228", H32(\h5C, \h4D, \hD1, \h24), 8, 12>>,
       <<"hash1", "bop202", H32(\h5A, \h82, \h79, \h99), 5, 9>>,
       <<"hash2", "bop228", H32(\h5C, \h4D, \hD1, \h24), 12, 7>>,
       <<"hash1", "bop202", H32(\h5A, \h82, \h79, \h99), 2, 11>>,
       <<"hash2", "bop228", H32(\h5C, \h4D, \hD1, \h24), 4, 6>>,
       <<"hash1", "bop202", H32(\h5A, \h82, \h79, \h99), 14, 7>>,
       <<"hash2", "bop228", H32(\h5C, \h4D, \hD1, \h24), 9, 15>>,
       <<"hash1", "bop202", H32(\h5A, \h82, \h79, \h99), 11, 13>>,
       <<"hash2", "bop228", H32(\h5C, \h4D, \hD1, \h24), 1, 13>>,
       <<"hash1", "bop202", H32(\h5A, \h82, \h79, \h99), 8, 12>>,
       <<"hash2", "bop228", H32(\h5C, \h4D, \hD1, \h24), 2, 11>>,
       <<"swap", 3>>,
       <<"hash1", "bop089", H32(\h6E, \hD9, \hEB, \hA1), 3, 11>>,
       <<"hash2", "bop089", H32(\h6D, \h70, \h3E, \hF3), 15, 9>>,
       <<"hash1", "bop089", H32(\h6E, \hD9, \hEB, \hA1), 10, 13>>,
       <<"hash2", "bop089", H32(\h6D, \h70, \h3E, \hF3), 5, 7>>,
       <<"hash1", "bop089", H32(\h6E, \hD9, \hEB, \hA1), 14, 6>>,
       <<"hash2", "bop089", H32(\h6D, \h70, \h3E, \hF3), 1, 15>>,
       <<"hash1", "bop089", H32(\h6E, \hD9, \hEB, \hA1), 4, 7>>,
       <<"hash2", "bop089", H32(\h6D, \h70, \h3E, \hF3), 3, 11>>,
       <<"hash1", "bop089", H32(\h6E, \hD9, \hEB, \hA1), 9, 14>>,
       <<"hash2", "bop089", H32(\h6D, \h70, \h3E, \hF3), 7, 8>>,
       <<"hash1", "bop089", H32(\h6E, \hD9, \hEB, \hA1), 15, 9>>,
       <<"hash2", "bop089", H32(\h6D, \h70, \h3E, \hF3), 14, 6>>,
       <<"hash1", "bop089", H32(\h6E, \hD9, \hEB, \hA1), 8, 13>>,
       <<"hash2", "bop089", H32(\h6D, \h70, \h3E, \hF3), 6, 6>>,
       <<"hash1", "bop089", H32(\h6E, \hD9, \hEB, \hA1), 1, 15>>,
       <<"hash2", "bop089", H32(\h6D, \h70, \h3E, \hF3), 9, 14>>,
       <<"hash1", "bop089", H32(\h6E, \hD9, \hEB, \hA1), 2, 14>>,
       <<"hash2", "bop089", H32(\h6D, \h70, \h3E, \hF3), 11, 12>>,
       <<"hash1", "bop089", H32(\h6E, \hD9, \hEB, \hA1), 7, 8>>,
       <<"hash2", "bop089", H32(\h6D, \h70, \h3E, \hF3), 8, 13>>,
       <<"hash1", "bop089", H32(\h6E, \hD9, \hEB, \hA1), 0, 13>>,
       <<"hash2", "bop089", H32(\h6D, \h70, \h3E, \hF3), 12, 5>>,
       <<"hash1", "bop089", H32(\h6E, \hD9, \hEB, \hA1), 6, 6>>,
       <<"hash2", "bop089", H32(\h6D, \h70, \h3E, \hF3), 2, 14>>,
       <<"hash1", "bop089", H32(\h6E, \hD9, \hEB, \hA1), 13, 5>>,
       <<"hash2", "bop089", H32(\h6D, \h70, \h3E, \hF3), 10, 13>>,
       <<"hash1", "bop089", H32(\h6E, \hD9, \hEB, \hA1), 11, 12>>,
       <<"hash2", "bop089", H32(\h6D, \h70, \h3E, \hF3), 0, 13>>,
       <<"hash1", "bop089", H32(\h6E, \hD9, \hEB, \hA1), 5, 7>>,
       <<"hash2", "bop089", H32(\h6D, \h70, \h3E, \hF3), 4, 7>>,
       <<"hash1", "bop089", H32(\h6E, \hD9, \hEB, \hA1), 12, 5>>,
       <<"hash2", "bop089", H32(\h6D, \h70, \h3E, \hF3), 13, 5>>,
       <<"swap", 0>>,
       <<"hash1", "bop228", H32(\h8F, \h1B, \hBC, \hDC), 1, 11>>,
       <<"hash2", "bop202", H32(\h7A, \h6D, \h76, \hE9), 8, 15>>,
       <<"hash1", "bop228", H32(\h8F, \h1B, \hBC, \hDC), 9, 12>>,
       <<"hash2", "bop202", H32(\h7A, \h6D, \h76, \hE9), 6, 5>>,
       <<"hash1", "bop228", H32(\h8F, \h1B, \hBC, \hDC), 11, 14>>,
       <<"hash2", "bop202", H32(\h7A, \h6D, \h76, \hE9), 4, 8>>,
       <<"hash1", "bop228", H32(\h8F, \h1B, \hBC, \hDC), 10, 15>>,
       <<"hash2", "bop202", H32(\h7A, \h6D, \h76, \hE9), 1, 11>>,
       <<"hash1", "bop228", H32(\h8F, \h1B, \hBC, \hDC), 0, 14>>,
       <<"hash2", "bop202", H32(\h7A, \h6D, \h76, \hE9), 3, 14>>,
       <<"hash1", "bop228", H32(\h8F, \h1B, \hBC, \hDC), 8, 15>>,
       <<"hash2", "bop202", H32(\h7A, \h6D, \h76, \hE9), 11, 14>>,
       <<"hash1", "bop228", H32(\h8F, \h1B, \hBC, \hDC), 12, 9>>,
       <<"hash2", "bop202", H32(\h7A, \h6D, \h76, \hE9), 15, 6>>,
       <<"hash1", "bop228", H32(\h8F, \h1B, \hBC, \hDC), 4, 8>>,
       <<"hash2", "bop202", H32(\h7A, \h6D, \h76, \hE9), 0, 14>>,
       <<"hash1", "bop228", H32(\h8F, \h1B, \hBC, \hDC), 13, 9>>,
       <<"hash2", "bop202", H32(\h7A, \h6D, \h76, \hE9), 5, 6>>,
       <<"hash1", "bop228", H32(\h8F, \h1B, \hBC, \hDC), 3, 14>>,
       <<"hash2", "bop202", H32(\h7A, \h6D, \h76, \hE9), 12, 9>>,
       <<"hash1", "bop228", H32(\h8F, \h1B, \hBC, \hDC), 7, 5>>,
       <<"hash2", "bop202", H32(\h7A, \h6D, \h76, \hE9), 2, 12>>,
       <<"hash1", "bop228", H32(\h8F, \h1B, \hBC, \hDC), 15, 6>>,
       <<"hash2", "bop202", H32(\h7A, \h6D, \h76, \hE9), 13, 9>>,
       <<"hash1", "bop228", H32(\h8F, \h1B, \hBC, \hDC), 14, 8>>,
       <<"hash2", "bop202", H32(\h7A, \h6D, \h76, \hE9), 9, 12>>,
       <<"hash1", "bop228", H32(\h8F, \h1B, \hBC, \hDC), 5, 6>>,
       <<"hash2", "bop202", H32(\h7A, \h6D, \h76, \hE9), 7, 5>>,
       <<"hash1", "bop228", H32(\h8F, \h1B, \hBC, \hDC), 6, 5>>,
       <<"hash2", "bop202", H32(\h7A, \h6D, \h76, \hE9), 10, 15>>,
       <<"hash1", "bop228", H32(\h8F, \h1B, \hBC, \hDC), 2, 12>>,
       <<"hash2", "bop202", H32(\h7A, \h6D, \h76, \hE9), 14, 8>>,
       <<"swap", 2>>,
       <<"hash1", "bop045", H32(\hA9, \h53, \hFD, \h4E), 4, 9>>,
       <<"hash2", "bop150", H32(\h00, \h00, \h00, \h00), 12, 8>>,
       <<"hash1", "bop045", H32(\hA9, \h53, \hFD, \h4E), 0, 15>>,
       <<"hash2", "bop150", H32(\h00, \h00, \h00, \h00), 15, 5>>,
       <<"hash1", "bop045", H32(\hA9, \h53, \hFD, \h4E), 5, 5>>,
       <<"hash2", "bop150", H32(\h00, \h00, \h00, \h00), 10, 12>>,
       <<"hash1", "bop045", H32(\hA9, \h53, \hFD, \h4E), 9, 11>>,
       <<"hash2", "bop150", H32(\h00, \h00, \h00, \h00), 4, 9>>,
       <<"hash1", "bop045", H32(\hA9, \h53, \hFD, \h4E), 7, 6>>,
       <<"hash2", "bop150", H32(\h00, \h00, \h00, \h00), 1, 12>>,
       <<"hash1", "bop045", H32(\hA9, \h53, \hFD, \h4E), 12, 8>>,
       <<"hash2", "bop150", H32(\h00, \h00, \h00, \h00), 5, 5>>,
       <<"hash1", "bop045", H32(\hA9, \h53, \hFD, \h4E), 2, 13>>,
       <<"hash2", "bop150", H32(\h00, \h00, \h00, \h00), 8, 14>>,
       <<"hash1", "bop045", H32(\hA9, \h53, \hFD, \h4E), 10, 12>>,
       <<"hash2", "bop150", H32(\h00, \h00, \h00, \h00), 7, 6>>,
       <<"hash1", "bop045", H32(\hA9, \h53, \hFD, \h4E), 14, 5>>,
       <<"hash2", "bop150", H32(\h00, \h00, \h00, \h00), 6, 8>>,
       <<"hash1", "bop045", H32(\hA9, \h53, \hFD, \h4E), 1, 12>>,
       <<"hash2", "bop150", H32(\h00, \h00, \h00, \h00), 2, 13>>,
       <<"hash1", "bop045", H32(\hA9, \h53, \hFD, \h4E), 3, 13>>,
       <<"hash2", "bop150", H32(\h00, \h00, \h00, \h00), 13, 6>>,
       <<"hash1", "bop045", H32(\hA9, \h53, \hFD, \h4E), 8, 14>>,
       <<"hash2", "bop150", H32(\h00, \h00, \h00, \h00), 14, 5>>,
       <<"hash1", "bop045", H32(\hA9, \h53, \hFD, \h4E), 11, 11>>,
       <<"hash2", "bop150", H32(\h00, \h00, \h00, \h00), 0, 15>>,
       <<"hash1", "bop045", H32(\hA9, \h53, \hFD, \h4E), 6, 8>>,
       <<"hash2", "bop150", H32(\h00, \h00, \h00, \h00), 3, 13>>,
       <<"hash1", "bop045", H32(\hA9, \h53, \hFD, \h4E), 15, 5>>,
       <<"hash2", "bop150", H32(\h00, \h00, \h00, \h00), 9, 11>>,
       <<"hash1", "bop045", H32(\hA9, \h53, \hFD, \h4E), 13, 6>>,
       <<"hash2", "bop150", H32(\h00, \h00, \h00, \h00), 11, 11>>,
       <<"swap", 4>> >>

\* SHA2<256, 256>::g_round and SHA2<512, 512>::g_round
g_round_256 ==
    << H32(\h42, \h8A, \h2F, \h98), H32(\h71, \h37, \h44, \h91),
       H32(\hB5, \hC0, \hFB, \hCF), H32(\hE9, \hB5, \hDB, \hA5),
       H32(\h39, \h56, \hC2, \h5B), H32(\h59, \hF1, \h11, \hF1),
       H32(\h92, \h3F, \h82, \hA4), H32(\hAB, \h1C, \h5E, \hD5),
       H32(\hD8, \h07, \hAA, \h98), H32(\h12, \h83, \h5B, \h01),
       H32(\h24, \h31, \h85, \hBE), H32(\h55, \h0C, \h7D, \hC3),
       H32(\h72, \hBE, \h5D, \h74), H32(\h80, \hDE, \hB1, \hFE),
       H32(\h9B, \hDC, \h06, \hA7), H32(\hC1, \h9B, \hF1, \h74),
       H32(\hE4, \h9B, \h69, \hC1), H32(\hEF, \hBE, \h47, \h86),
       H32(\h0F, \hC1, \h9D, \hC6), H32(\h24, \h0C, \hA1, \hCC),
       H32(\h2D, \hE9, \h2C, \h6F), H32(\h4A, \h74, \h84, \hAA),
       H32(\h5C, \hB0, \hA9, \hDC), H32(\h76, \hF9, \h88, \hDA),
       H32(\h98, \h3E, \h51, \h52), H32(\hA8, \h31, \hC6, \h6D),
       H32(\hB0, \h03, \h27, \hC8), H32(\hBF, \h59, \h7F, \hC7),
       H32(\hC6, \hE0, \h0B, \hF3), H32(\hD5, \hA7, \h91, \h47),
       H32(\h06, \hCA, \h63, \h51), H32(\h14, \h29, \h29, \h67),
       H32(\h27, \hB7, \h0A, \h85), H32(\h2E, \h1B, \h21, \h38),
       H32(\h4D, \h2C, \h6D, \hFC), H32(\h53, \h38, \h0D, \h13),
       H32(\h65, \h0A, \h73, \h54), H32(\h76, \h6A, \h0A, \hBB),
       H32(\h81, \hC2, \hC9, \h2E), H32(\h92, \h72, \h2C, \h85),
       H32(\hA2, \hBF, \hE8, \hA1), H32(\hA8, \h1A, \h66, \h4B),
       H32(\hC2, \h4B, \h8B, \h70), H32(\hC7, \h6C, \h51, \hA3),
       H32(\hD1, \h92, \hE8, \h19), H32(\hD6, \h99, \h06, \h24),
       H32(\hF4, \h0E, \h35, \h85), H32(\h10, \h6A, \hA0, \h70),
       H32(\h19, \hA4, \hC1, \h16), H32(\h1E, \h37, \h6C, \h08),
       H32(\h27, \h48, \h77, \h4C), H32(\h34, \hB0, \hBC, \hB5),
       H32(\h39, \h1C, \h0C, \hB3), H32(\h4E, \hD8, \hAA, \h4A),
       H32(\h5B, \h9C, \hCA, \h4F), H32(\h68, \h2E, \h6F, \hF3),
       H32(\h74, \h8F, \h82, \hEE), H32(\h78, \hA5, \h63, \h6F),
       H32(\h84, \hC8, \h78, \h14), H32(\h8C, \hC7, \h02, \h08),
       H32(\h90, \hBE, \hFF, \hFA), H32(\hA4, \h50, \h6C, \hEB),
       H32(\hBE, \hF9, \hA3, \hF7), H32(\hC6, \h71, \h78, \hF2) >>

g_round_512 ==
    << H64(\h42, \h8A, \h2F, \h98, \hD7, \h28, \hAE, \h22),
       H64(\h71, \h37, \h44, \h91, \h23, \hEF, \h65, \hCD),
       H64(\hB5, \hC0, \hFB, \hCF, \hEC, \h4D, \h3B, \h2F),
       H64(\hE9, \hB5, \hDB, \hA5, \h81, \h89, \hDB, \hBC),
       H64(\h39, \h56, \hC2, \h5B, \hF3, \h48, \hB5, \h38),
       H64(\h59, \hF1, \h11, \hF1, \hB6, \h05, \hD0, \h19),
       H64(\h92, \h3F, \h82, \hA4, \hAF, \h19, \h4F, \h9B),
       H64(\hAB, \h1C, \h5E, \hD5, \hDA, \h6D, \h81, \h18),
       H64(\hD8, \h07, \hAA, \h98, \hA3, \h03, \h02, \h42),
       H64(\h12, \h83, \h5B, \h01, \h45, \h70, \h6F, \hBE),
       H64(\h24, \h31, \h85, \hBE, \h4E, \hE4, \hB2, \h8C),
       H64(\h55, \h0C, \h7D, \hC3, \hD5, \hFF, \hB4, \hE2),
       H64(\h72, \hBE, \h5D, \h74, \hF2, \h7B, \h89, \h6F),
       H64(\h80, \hDE, \hB1, \hFE, \h3B, \h16, \h96, \hB1),
       H64(\h9B, \hDC, \h06, \hA7, \h25, \hC7, \h12, \h35),
       H64(\hC1, \h9B, \hF1, \h74, \hCF, \h69, \h26, \h94),
       H64(\hE4, \h9B, \h69, \hC1, \h9E, \hF1, \h4A, \hD2),
       H64(\hEF, \hBE, \h47, \h86, \h38, \h4F, \h25, \hE3),
       H64(\h0F, \hC1, \h9D, \hC6, \h8B, \h8C, \hD5, \hB5),
       H64(\h24, \h0C, \hA1, \hCC, \h77, \hAC, \h9C, \h65),
       H64(\h2D, \hE9, \h2C, \h6F, \h59, \h2B, \h02, \h75),
       H64(\h4A, \h74, \h84, \hAA, \h6E, \hA6, \hE4, \h83),
       H64(\h5C, \hB0, \hA9, \hDC, \hBD, \h41, \hFB, \hD4),
       H64(\h76, \hF9, \h88, \hDA, \h83, \h11, \h53, \hB5),
       H64(\h98, \h3E, \h51, \h52, \hEE, \h66, \hDF, \hAB),
       H64(\hA8, \h31, \hC6, \h6D, \h2D, \hB4, \h32, \h10),
       H64(\hB0, \h03, \h27, \hC8, \h98, \hFB, \h21, \h3F),
       H64(\hBF, \h59, \h7F, \hC7, \hBE, \hEF, \h0E, \hE4),
       H64(\hC6, \hE0, \h0B, \hF3, \h3D, \hA8, \h8F, \hC2),
       H64(\hD5, \hA7, \h91, \h47, \h93, \h0A, \hA7, \h25),
       H64(\h06, \hCA, \h63, \h51, \hE0, \h03, \h82, \h6F),
       H64(\h14, \h29, \h29, \h67, \h0A, \h0E, \h6E, \h70),
       H64(\h27, \hB7, \h0A, \h85, \h46, \hD2, \h2F, \hFC),
       H64(\h2E, \h1B, \h21, \h38, \h5C, \h26, \hC9, \h26),
       H64(\h4D, \h2C, \h6D, \hFC, \h5A, \hC4, \h2A, \hED),
       H64(\h53, \h38, \h0D, \h13, \h9D, \h95, \hB3, \hDF),
       H64(\h65, \h0A, \h73, \h54, \h8B, \hAF, \h63, \hDE),
       H64(\h76, \h6A, \h0A, \hBB, \h3C, \h77, \hB2, \hA8),
       H64(\h81, \hC2, \hC9, \h2E, \h47, \hED, \hAE, \hE6),
       H64(\h92, \h72, \h2C, \h85, \h14, \h82, \h35, \h3B),
       H64(\hA2, \hBF, \hE8, \hA1, \h4C, \hF1, \h03, \h64),
       H64(\hA8, \h1A, \h66, \h4B, \hBC, \h42, \h30, \h01),
       H64(\hC2, \h4B, \h8B, \h70, \hD0, \hF8, \h97, \h91),
       H64(\hC7, \h6C, \h51, \hA3, \h06, \h54, \hBE, \h30),
       H64(\hD1, \h92, \hE8, \h19, \hD6, \hEF, \h52, \h18),
       H64(\hD6, \h99, \h06, \h24, \h55, \h65, \hA9, \h10),
       H64(\hF4, \h0E, \h35, \h85, \h57, \h71, \h20, \h2A),
       H64(\h10, \h6A, \hA0, \h70, \h32, \hBB, \hD1, \hB8),
       H64(\h19, \hA4, \hC1, \h16, \hB8, \hD2, \hD0, \hC8),
       H64(\h1E, \h37, \h6C, \h08, \h51, \h41, \hAB, \h53),
       H64(\h27, \h48, \h77, \h4C, \hDF, \h8E, \hEB, \h99),
       H64(\h34, \hB0, \hBC, \hB5, \hE1, \h9B, \h48, \hA8),
       H64(\h39, \h1C, \h0C, \hB3, \hC5, \hC9, \h5A, \h63),
       H64(\h4E, \hD8, \hAA, \h4A, \hE3, \h41, \h8A, \hCB),
       H64(\h5B, \h9C, \hCA, \h4F, \h77, \h63, \hE3, \h73),
       H64(\h68, \h2E, \h6F, \hF3, \hD6, \hB2, \hB8, \hA3),
       H64(\h74, \h8F, \h82, \hEE, \h5D, \hEF, \hB2, \hFC),
       H64(\h78, \hA5, \h63, \h6F, \h43, \h17, \h2F, \h60),
       H64(\h84, \hC8, \h78, \h14, \hA1, \hF0, \hAB, \h72),
       H64(\h8C, \hC7, \h02, \h08, \h1A, \h64, \h39, \hEC),
       H64(\h90, \hBE, \hFF, \hFA, \h23, \h63, \h1E, \h28),
       H64(\hA4, \h50, \h6C, \hEB, \hDE, \h82, \hBD, \hE9),
       H64(\hBE, \hF9, \hA3, \hF7, \hB2, \hC6, \h79, \h15),
       H64(\hC6, \h71, \h78, \hF2, \hE3, \h72, \h53, \h2B),
       H64(\hCA, \h27, \h3E, \hCE, \hEA, \h26, \h61, \h9C),
       H64(\hD1, \h86, \hB8, \hC7, \h21, \hC0, \hC2, \h07),
       H64(\hEA, \hDA, \h7D, \hD6, \hCD, \hE0, \hEB, \h1E),
       H64(\hF5, \h7D, \h4F, \h7F, \hEE, \h6E, \hD1, \h78),
       H64(\h06, \hF0, \h67, \hAA, \h72, \h17, \h6F, \hBA),
       H64(\h0A, \h63, \h7D, \hC5, \hA2, \hC8, \h98, \hA6),
       H64(\h11, \h3F, \h98, \h04, \hBE, \hF9, \h0D, \hAE),
       H64(\h1B, \h71, \h0B, \h35, \h13, \h1C, \h47, \h1B),
       H64(\h28, \hDB, \h77, \hF5, \h23, \h04, \h7D, \h84),
       H64(\h32, \hCA, \hAB, \h7B, \h40, \hC7, \h24, \h93),
       H64(\h3C, \h9E, \hBE, \h0A, \h15, \hC9, \hBE, \hBC),
       H64(\h43, \h1D, \h67, \hC4, \h9C, \h10, \h0D, \h4C),
       H64(\h4C, \hC5, \hD4, \hBE, \hCB, \h3E, \h42, \hB6),
       H64(\h59, \h7F, \h29, \h9C, \hFC, \h65, \h7E, \h2A),
       H64(\h5F, \hCB, \h6F, \hAB, \h3A, \hD6, \hFA, \hEC),
       H64(\h6C, \h44, \h19, \h8C, \h4A, \h47, \h58, \h17) >>

\* the statements of compress(), in source order
steps(a) ==
    CASE a = "MD4" -> MD4_steps
      [] a = "MD5" -> MD5_steps
      [] a = "RMD128" -> RMD128_steps
      [] a = "RMD160" -> RMD160_steps
      [] a = "RMD256" -> RMD256_steps
      [] a = "RMD320" -> RMD320_steps

\* the local arrays after the last round statement
rounds(a, chain, block) ==
    Iterate(LAMBDA words, i : statement(a, words, block, steps(a)[i]),
            locals(a, chain), 1, Len(steps(a)))

\* The last statements of RMD<128>::compress and RMD<160>::compress: row j names
\* the words <<m_state[..], hash1[..], hash2[..]>> added into m_state[j]
rmd_merge_words(a) ==
    IF a = "RMD128"
    THEN << <<1, 2, 3>>, <<2, 3, 0>>, <<3, 0, 1>>, <<0, 1, 2>> >>
    ELSE << <<1, 2, 3>>, <<2, 3, 4>>, <<3, 4, 0>>, <<4, 0, 1>>, <<0, 1, 2>> >>

\* the carry into byte j (from 1) of the sum of two words
RECURSIVE CarryInto(_, _, _)
CarryInto(x, y, j) ==
    IF j = 1 THEN 0 ELSE (x[j - 1] + y[j - 1] + CarryInto(x, y, j - 1)) \div 256

\* x + y overflows the word
Overflows(x, y) == CarryInto(x, y, Len(x) + 1) = 1

\* x + y modulo 2^(8 * Len(x)), byte by byte
WrappedSum(x, y) == Tuple([j \in 1..Len(x) |-> (x[j] + y[j] + CarryInto(x, y, j)) % 256])

\* A faulty closing loop: the additions saturate at the largest word instead of
\* wrapping.
mergeSaturating(a, chain, words) ==
    IF a \in {"RMD128", "RMD160"}
    THEN Tuple([i \in 1..Len(chain) |->
            Add(Add(chain[rmd_merge_words(a)[i][1] + 1],
                    words[rmd_merge_words(a)[i][2] + 1]),
                words[Len(chain) + rmd_merge_words(a)[i][3] + 1])])
    ELSE Tuple([i \in 1..Len(chain) |->
            IF Overflows(chain[i], words[i]) THEN Fill(Len(chain[i]), 255)
            ELSE Add(chain[i], words[i])])
\* A faulty merge of RMD<128> and RMD<160>: m_state[0] is stored first, without
\* the temporary `value`, and the sum for the last word reads the new m_state[0].
mergeInPlace(a, chain, words) ==
    IF a \in {"RMD128", "RMD160"}
    THEN Tuple([i \in 1..Len(chain) |->
            Add(Add(IF rmd_merge_words(a)[i][1] = 0
                    THEN Add(Add(chain[rmd_merge_words(a)[1][1] + 1],
                                 words[rmd_merge_words(a)[1][2] + 1]),
                             words[Len(chain) + rmd_merge_words(a)[1][3] + 1])
                    ELSE chain[rmd_merge_words(a)[i][1] + 1],
                    words[rmd_merge_words(a)[i][2] + 1]),
                words[Len(chain) + rmd_merge_words(a)[i][3] + 1])])
    ELSE Tuple([i \in 1..Len(chain) |-> Add(chain[i], words[i])])
\* the closing statements of compress(): m_state[i] += state[i] for every i
\* (MD4, MD5, RMD<256>, RMD<320>), or the three-term sums of RMD<128>, RMD<160>
merge(a, chain, words) ==
    IF a \in {"RMD128", "RMD160"}
    THEN Tuple([i \in 1..Len(chain) |->
            Add(Add(chain[rmd_merge_words(a)[i][1] + 1],
                    words[rmd_merge_words(a)[i][2] + 1]),
                words[Len(chain) + rmd_merge_words(a)[i][3] + 1])])
    ELSE Tuple([i \in 1..Len(chain) |-> Add(chain[i], words[i])])

\* SHA1::compress: the boolean function and the constant of round i
sha1_bop(i) ==
    CASE i <= 20 -> "bop202" [] i <= 40 -> "bop150" [] i <= 60 -> "bop232" [] OTHER -> "bop150"

sha1_constant(i) ==
    CASE i <= 20 -> H32(\h5A, \h82, \h79, \h99)
      [] i <= 40 -> H32(\h6E, \hD9, \hEB, \hA1)
      [] i <= 60 -> H32(\h8F, \h1B, \hBC, \hDC)
      [] OTHER   -> H32(\hCA, \h62, \hC1, \hD6)

\* A faulty sigma0: the third term is rotated where the code shifts.
sigma0Rotates(value) ==
    LET c == IF Len(value) = 4 THEN <<7, 18, 3>> ELSE <<1, 8, 7>>
    IN  Xor(Xor(rotr(value, c[1]), rotr(value, c[2])), rotr(value, c[3]))
\* SHA2: sigma0, sigma1, delta0, delta1 for uint32_type and uint64_type
sigma0(value) ==
    LET c == IF Len(value) = 4 THEN <<7, 18, 3>> ELSE <<1, 8, 7>>
    IN  Xor(Xor(rotr(value, c[1]), rotr(value, c[2])), shr(value, c[3]))

sigma1(value) ==
    LET c == IF Len(value) = 4 THEN <<17, 19, 10>> ELSE <<19, 61, 6>>
    IN  Xor(Xor(rotr(value, c[1]), rotr(value, c[2])), shr(value, c[3]))

delta0(value) ==
    LET c == IF Len(value) = 4 THEN <<2, 13, 22>> ELSE <<28, 34, 39>>
    IN  Xor(Xor(rotr(value, c[1]), rotr(value, c[2])), rotr(value, c[3]))

delta1(value) ==
    LET c == IF Len(value) = 4 THEN <<6, 11, 25>> ELSE <<14, 18, 41>>
    IN  Xor(Xor(rotr(value, c[1]), rotr(value, c[2])), rotr(value, c[3]))

\* SHA2::unshift(state, value1, value2)
sha2_unshift(state, value1, value2) ==
    <<Add(value1, value2), state[1], state[2], state[3],
      Add(state[4], value2), state[5], state[6], state[7]>>

\* SHA2<state_bits>::g_round, the table of SHA2<state_bits, state_bits>
g_round(a) == IF state_bits(a) = 256 THEN g_round_256 ELSE g_round_512

\* A faulty message schedule: the block words are read in host byte order.
schedule_headNative(a, block) ==
    Tuple([i \in 1..block_size(a) |-> WordAt(block, i - 1, sizeof_word_type(a))])
\* SHA1::compress and SHA2::compress: round[i] = h2be(block[i]) for i < 16 ...
schedule_head(a, block) ==
    Tuple([i \in 1..block_size(a) |-> h2be(WordAt(block, i - 1, sizeof_word_type(a)))])

\* ... and the rest of the array `round`
schedule(a, block) ==
    Iterate(LAMBDA round, i :
                Append(round,
                    IF Class(a) = "SHA1"
                    THEN rotl(Xor(Xor(round[i - 16], round[i - 14]),
                                  Xor(round[i - 8], round[i - 3])), 1)
                    ELSE Add(Add(Add(round[i - 16], sigma0(round[i - 15])),
                                 round[i - 7]), sigma1(round[i - 2]))),
            schedule_head(a, block), 17, round_size(a))

\* SHA1::compress and SHA2::compress: iteration i (from 1) of the round loops
sha_round(a, state, round, i) ==
    IF Class(a) = "SHA1"
    THEN unshift(a, state,
             Add(Add(Add(Add(rotl(state[1], 5),
                             bop(sha1_bop(i), state[2], state[3], state[4])),
                         state[5]), round[i]), sha1_constant(i)))
    ELSE sha2_unshift(state,
             Add(delta0(state[1]), bop("bop232", state[1], state[2], state[3])),
             Add(Add(Add(Add(delta1(state[5]),
                             bop("bop202", state[5], state[6], state[7])),
                         state[8]), round[i]), g_round(a)[i]))

\* SHA1::compress and SHA2::compress: the array `state` after the last round
sha_rounds(a, chain, round) ==
    Iterate(LAMBDA state, i : sha_round(a, state, round, i), chain, 1, round_size(a))

\* compress(block) of hasher class a: the new m_state
compress(a, chain, block) ==
    IF Class(a) \in {"SHA1", "SHA2"}
    THEN merge(a, chain, sha_rounds(a, chain, schedule(a, block)))
    ELSE merge(a, chain, rounds(a, chain, block))

(***************************************************************************)
(* The streaming hasher.  A hasher is the record of its three data members *)
(* together with two history fields that the code does not have: `fed`,    *)
(* the bytes its update() calls were given, and `calls`, the block each    *)
(* compress() invocation was handed.                                       *)
(***************************************************************************)
\* the object a constructor leaves: m_count = {}, m_block = {}, m_state the class's
\* initial chaining state
New(a) ==
    [m_count |-> 0,
     m_block |-> Fill(sizeof_block_type(a), 0),
     m_state |-> InitialState(a),
     fed     |-> <<>>,
     calls   |-> <<>>]

\* compress(m_block) on hasher h
Compress(a, h) ==
    [h EXCEPT !.m_state = compress(a, h.m_state, h.m_block),
              !.calls = Append(h.calls, h.m_block)]

\* The loops of update() work on s = <<hasher, cursor, bytes taken so far>>;
\* Source(k) is the k-th byte the call stores (k = 1, 2, ...): *input++ or the
\* fill byte.  m_block after
\*     while (cursor < limit) m_block.data()[cursor++] = <next byte>;
Stored(s, Source(_), limit) ==
    Tuple([i \in 1..Len(s[1].m_block) |->
        IF i > s[2] /\ i <= limit THEN Source(s[3] + i - s[2]) ELSE s[1].m_block[i]])

\* one pass of the outer loop:
\*     while (cursor < sizeof(block_type)) m_block.data()[cursor++] = <next byte>;
\*     cursor = (compress(m_block), 0);
FillBlock(a, s, Source(_)) ==
    <<Compress(a, [s[1] EXCEPT !.m_block = Stored(s, Source, sizeof_block_type(a))]),
      0, s[3] + sizeof_block_type(a) - s[2]>>

\* the body shared by both update overloads:
\*     cursor = m_count % sizeof(block_type);
\*     excess = (cursor + count) % sizeof(block_type);
\*     blocks = (cursor + count) / sizeof(block_type);
\*     while (blocks-- != 0) { <one pass> }
\*     while (cursor < excess) m_block.data()[cursor++] = <next byte>;
\*     m_count += count
Remainder(s, Source(_), excess, count) ==
    [s[1] EXCEPT !.m_block = Stored(s, Source, excess), !.m_count = @ + count]

Absorb(a, h, Source(_), count) ==
    Remainder(Iterate(LAMBDA s, k : FillBlock(a, s, Source),
                      <<h, h.m_count % sizeof_block_type(a), 0>>,
                      1, ((h.m_count % sizeof_block_type(a)) + count) \div sizeof_block_type(a)),
              Source,
              ((h.m_count % sizeof_block_type(a)) + count) % sizeof_block_type(a),
              count)

\* A faulty update(input, count): the cursor starts at the beginning of the buffer
\* instead of at m_count % sizeof(block_type), as if each call began a new block.
updateFromStart(a, h, input, count) ==
    [Remainder(Iterate(LAMBDA s, k : FillBlock(a, s, LAMBDA j : input[j]),
                       <<h, 0, 0>>,
                       1, count \div sizeof_block_type(a)),
               LAMBDA j : input[j],
               count % sizeof_block_type(a),
               count)
        EXCEPT !.fed = @ \o SubSeq(input, 1, count)]
\* A faulty update(input, count): the loop that stores the bytes left over after
\* the last whole block is missing.
updateDropsTail(a, h, input, count) ==
    [Iterate(LAMBDA s, k : FillBlock(a, s, LAMBDA j : input[j]),
             <<h, h.m_count % sizeof_block_type(a), 0>>,
             1, ((h.m_count % sizeof_block_type(a)) + count) \div sizeof_block_type(a))[1]
        EXCEPT !.m_count = @ + count, !.fed = @ \o SubSeq(input, 1, count)]
\* A faulty update(input, count): the number of passes is count / sizeof(block_type),
\* computed without the bytes already in the buffer.
updateCountsAlone(a, h, input, count) ==
    [Remainder(Iterate(LAMBDA s, k : FillBlock(a, s, LAMBDA j : input[j]),
                       <<h, h.m_count % sizeof_block_type(a), 0>>,
                       1, count \div sizeof_block_type(a)),
               LAMBDA j : input[j],
               ((h.m_count % sizeof_block_type(a)) + count) % sizeof_block_type(a),
               count)
        EXCEPT !.fed = @ \o SubSeq(input, 1, count)]
\* update(const uint8_type *input, size_type count)
update(a, h, input, count) ==
    [Absorb(a, h, LAMBDA k : input[k], count) EXCEPT !.fed = @ \o SubSeq(input, 1, count)]

\* A faulty update(count, byte): the last loop tests `cursor <= excess` and
\* stores one byte more than it should.
update_fillOneMore(a, h, count, input) ==
    [Absorb(a, h, LAMBDA k : input, count)
        EXCEPT !.fed = @ \o Fill(count, input),
               !.m_block[((h.m_count + count) % sizeof_block_type(a)) + 1] = input]
\* A faulty update(count, byte): the cursor starts at the beginning of the buffer
\* instead of at m_count % sizeof(block_type).
update_fillFromStart(a, h, count, input) ==
    [Remainder(Iterate(LAMBDA s, k : FillBlock(a, s, LAMBDA j : input),
                       <<h, 0, 0>>,
                       1, count \div sizeof_block_type(a)),
               LAMBDA j : input,
               count % sizeof_block_type(a),
               count)
        EXCEPT !.fed = @ \o Fill(count, input)]
\* update(size_type count, uint8_type input)
update_fill(a, h, count, input) ==
    [Absorb(a, h, LAMBDA k : input, count) EXCEPT !.fed = @ \o Fill(count, input)]

\* update(const input_type &input) for a trivially copyable value: its object bytes
update_value(a, h, input) == update(a, h, input, Len(input))

\* __builtin_strlen(input): the number of bytes before the first zero byte
strlen(input) ==
    (CHOOSE i \in 1..Len(input) :
         /\ input[i] = 0
         /\ \A j \in 1..(i - 1) : input[j] # 0) - 1
\* A faulty update(const char *input): the terminator is hashed as well.
update_textTerminated(a, h, input) == update(a, h, input, strlen(input) + 1)
\* update(const char *input)
update_text(a, h, input) == update(a, h, input, strlen(input))
\* update(const size_type count, input_type &&input):
\*     for (size_type i = 0; i < count; ++i) update(static_cast<input_type&&>(input));
\* the inner call is update(const char*) for a string (text) and
\* update(const input_type&) for any other value
update_repeat(a, h, count, input, text) ==
    Iterate(LAMBDA s, i : IF text THEN update_text(a, s, input) ELSE update_value(a, s, input),
            h, 1, count)
\* A faulty size(): the number of bytes waiting in the block buffer.
sizeBuffered(h) == h.m_count % Len(h.m_block)
\* size()
size(h) == h.m_count
\* A faulty destructor: the size passed to memset is m_block.size(), the number
\* of words.
destroyWords(a, h) ==
    [h EXCEPT !.m_block = Fill(block_size(a), 0) \o SubSeq(@, block_size(a) + 1, Len(@))]
\* ~MD4(), and likewise of every class:
\*     __builtin_memset(m_block.data(), 0, sizeof(block_type))
destroy(a, h) ==
    [h EXCEPT !.m_block = Fill(sizeof_block_type(a), 0) \o SubSeq(@, sizeof_block_type(a) + 1, Len(@))]

\* whether digest() byte-swaps the length field and the state words (h2be)
SwapsBytes(a) == Class(a) \in {"SHA1", "SHA2"}

\* m_count << 3 in size_type
BitCount(a, h) == shl(ToWord(h.m_count, sizeof_size_type(a)), 3)

\* A faulty zero fill: `length` is computed from the size before the 0x80 marker
\* was absorbed.
PadCountBeforeMarker(a, marked) ==
    LET length == ((marked.m_count - 1) % sizeof_block_type(a)) + sizeof_size_type(a)
        factor == (length + sizeof_block_type(a) - 1) \div sizeof_block_type(a)
    IN  factor * sizeof_block_type(a) - length
\* digest(): auto length = hasher.size() % sizeof(block_type) + sizeof(size_type);
\*           auto factor = (length + sizeof(block_type) - 1) / sizeof(block_type);
\* and the count factor * sizeof(block_type) - length of the zero fill
PadCount(a, marked) ==
    LET length == (size(marked) % sizeof_block_type(a)) + sizeof_size_type(a)
        factor == (length + sizeof_block_type(a) - 1) \div sizeof_block_type(a)
    IN  factor * sizeof_block_type(a) - length

\* digest(): hasher.update(size_type{1}, uint8_type{0x80}) on the copy of *this
Marked(a, h) == update_fill(a, h, 1, 128)

\* digest(): hasher.update(factor * sizeof(block_type) - length, uint8_type{0x00})
Padded(a, marked) == update_fill(a, marked, PadCount(a, marked), 0)

\* A faulty length field: the count of the padded copy, hasher.m_count << 3.
ClosedPaddedCount(a, h, padded) ==
    update_value(a, padded,
                 IF SwapsBytes(a) THEN h2be(BitCount(a, padded)) ELSE BitCount(a, padded))
\* A faulty length field: m_count << 3 in host byte order in every class.
ClosedNativeOrder(a, h, padded) == update_value(a, padded, BitCount(a, h))
\* digest(): hasher.update(m_count << 3), through h2be() in SHA1 and SHA2; the
\* count is the one of the object digest() was called on
Closed(a, h, padded) ==
    update_value(a, padded, IF SwapsBytes(a) THEN h2be(BitCount(a, h)) ELSE BitCount(a, h))

\* A faulty digest(): the state words are returned in host byte order.
SwappedNot(a, closed) == closed
\* digest() of SHA1 and SHA2: for (auto &value : hasher.m_state) value = h2be(value)
Swapped(a, closed) ==
    IF SwapsBytes(a)
    THEN [closed EXCEPT !.m_state = Tuple([i \in 1..Len(@) |-> h2be(@[i])])]
    ELSE closed

\* A faulty digest(): the trailing instead of the leading bytes of the state.
ReturnedTrailing(a, h, final) ==
    [result |-> SubSeq(Bytes(final.m_state),
                       Len(Bytes(final.m_state)) - sizeof_output_type(a) + 1,
                       Len(Bytes(final.m_state))),
     hasher |-> final,
     scrubbed |-> destroy(a, final),
     self   |-> h]
\* A faulty digest(): padding and length are applied to *this instead of a copy.
ReturnedInPlace(a, h, final) ==
    [result |-> SubSeq(Bytes(final.m_state), 1, sizeof_output_type(a)),
     hasher |-> final,
     scrubbed |-> destroy(a, final),
     self   |-> final]
\* A faulty digest(): the final chaining state is written back to *this.
ReturnedKeepsState(a, h, final) ==
    [result |-> SubSeq(Bytes(final.m_state), 1, sizeof_output_type(a)),
     hasher |-> final,
     scrubbed |-> destroy(a, final),
     self   |-> [h EXCEPT !.m_state = final.m_state]]
\* digest(): return *reinterpret_cast<output_type*>(&hasher.m_state)
Returned(a, h, final) ==
    [result |-> SubSeq(Bytes(final.m_state), 1, sizeof_output_type(a)),
     hasher |-> final,
     scrubbed |-> destroy(a, final),
     self   |-> h]

\* digest() const: the value returned (result), the local copy `hasher` at the
\* return statement and after its destructor has run (scrubbed), and the object
\* the call was made on afterwards (self)
digest(a, h) == Returned(a, h, Swapped(a, Closed(a, h, Padded(a, Marked(a, h)))))

(***************************************************************************)
(* The state machine: one hasher object of class `alg`, driven by a caller *)
(* that interleaves update() and digest() calls.                           *)
(***************************************************************************)
\* the longest stream fed to one object, in blocks
MaxBlocks == 2

\* the caller's data: the byte at 0-based stream position p.  Chunk boundaries
\* vary from run to run, the stream does not, so that runs which split the same
\* stream differently can be compared.
Stream(p) == (p * 37 + 11) % 256

\* the next `count` bytes of the stream after the `from` bytes already fed
Chunk(from, count) == Tuple([i \in 1..count |-> Stream(from + i - 1)])

\* the chunk lengths a caller passes, relative to the block size B and the length
\* field width L of the class: nothing; B - L - 1, after which marker and length
\* field exactly fill the block; B - L, one byte more; B + L + 1, more than a block
Counts(a) ==
    {0,
     sizeof_block_type(a) - sizeof_size_type(a) - 1,
     sizeof_block_type(a) - sizeof_size_type(a),
     sizeof_block_type(a) + sizeof_size_type(a) + 1}

\* the object itself, as a hasher record
Self == [m_count |-> m_count, m_block |-> m_block, m_state |-> m_state,
         fed |-> fed, calls |-> calls]

\* Faulty locals: excess is one more than the bytes left over.
entryExcessOneMore(a, h, count) ==
    [cursor |-> h.m_count % sizeof_block_type(a),
     excess |-> (((h.m_count % sizeof_block_type(a)) + count) % sizeof_block_type(a)) + 1,
     blocks |-> ((h.m_count % sizeof_block_type(a)) + count) \div sizeof_block_type(a)]
\* the locals update() computes on entry:
\*     cursor = m_count % sizeof(block_type);
\*     excess = (cursor + count) % sizeof(block_type);
\*     blocks = (cursor + count) / sizeof(block_type);
entry(a, h, count) ==
    [cursor |-> h.m_count % sizeof_block_type(a),
     excess |-> ((h.m_count % sizeof_block_type(a)) + count) % sizeof_block_type(a),
     blocks |-> ((h.m_count % sizeof_block_type(a)) + count) \div sizeof_block_type(a)]

\* no update() call in progress
Idle == [at |-> "idle", cursor |-> 0, excess |-> 0, blocks |-> 0,
         count |-> 0, fill |-> FALSE, byte |-> 0, input |-> 0]


Init ==
    /\ alg \in Algs
    /\ m_count = New(alg).m_count
    /\ m_block = New(alg).m_block
    /\ m_state = New(alg).m_state
    /\ fed = <<>>
    /\ calls = <<>>
    /\ output = <<>>
    /\ hasher = New(alg)
    /\ resumed = FALSE
    /\ hmac = [m_key |-> <<>>, secret |-> <<>>]
    /\ frame = [pc |-> 0, state |-> <<>>, round |-> <<>>]
    /\ run = Idle

\* a call update(input, count) with the next `count` bytes of the stream
UpdateBytes ==
    \E count \in Counts(alg) :
        /\ m_count + count <= MaxBlocks * sizeof_block_type(alg)
        /\ \E next \in {update(alg, Self, Chunk(m_count, count), count)} :
               /\ m_count' = next.m_count
               /\ m_block' = next.m_block
               /\ m_state' = next.m_state
               /\ fed' = next.fed
               /\ calls' = next.calls
        /\ output' = <<>>
        /\ hasher' = New(alg)
        /\ resumed' = (resumed \/ output # <<>>)
        /\ UNCHANGED <<alg, hmac, frame, run>>

\* a call digest()
Digest ==
    \E call \in {digest(alg, Self)} :
        /\ m_count' = call.self.m_count
        /\ m_block' = call.self.m_block
        /\ m_state' = call.self.m_state
        /\ fed' = call.self.fed
        /\ calls' = call.self.calls
        /\ output' = call.result
        /\ hasher' = call.hasher
        /\ UNCHANGED <<alg, resumed, hmac, frame, run>>

Next == UpdateBytes \/ Digest

Spec == Init /\ [][Next]_vars

(***************************************************************************)
(* Properties of update() and digest().                                    *)
(***************************************************************************)
\* a fresh hasher of the same class given the whole stream in one update() call
Monolithic == update(alg, New(alg), fed, Len(fed))

\* the valid prefix of the buffer of hasher h: its first m_count % B bytes
Pending(a, h) == SubSeq(h.m_block, 1, h.m_count % sizeof_block_type(a))

\* C1: however the stream was split into update(bytes, count) calls (empty
\* chunks, chunks that straddle a block boundary, calls made after a digest()),
\* the object has the same m_count, the same chaining state and the same valid
\* buffer prefix as a fresh hasher given the whole stream in a single update(),
\* and digest() returns the same bytes as it does on that hasher.
C1_IncrementalEqualsMonolithic ==
    \A single \in {Monolithic} :
        /\ m_count = single.m_count
        /\ m_state = single.m_state
        /\ Pending(alg, Self) = Pending(alg, single)
        /\ output # <<>> => output = digest(alg, single).result

\* The stream length 2 * (B - L - 1) is only reached by two chunks of B - L - 1
\* bytes (and any number of empty ones); the second straddles the block boundary.
C1_Witness ==
    /\ m_count = 2 * (sizeof_block_type(alg) - sizeof_size_type(alg) - 1)
    /\ Len(calls) = 1
    /\ output # <<>>

\* C2: after updates totalling n bytes compress() has been invoked exactly
\* floor(n / B) times, the k-th time on stream bytes [(k-1)B, kB) in order, and
\* the first n mod B bytes of m_block are the last n mod B bytes of the stream.
C2_HasherInvariant ==
    /\ m_count = Len(fed)
    /\ Len(calls) = Len(fed) \div sizeof_block_type(alg)
    /\ \A k \in 1..Len(calls) :
           calls[k] = SubSeq(fed, (k - 1) * sizeof_block_type(alg) + 1,
                                  k * sizeof_block_type(alg))
    /\ Pending(alg, Self) =
           SubSeq(fed, Len(fed) - (Len(fed) % sizeof_block_type(alg)) + 1, Len(fed))

\* one block compressed, an incomplete block pending
C2_Witness ==
    /\ Len(calls) = 1
    /\ m_count % sizeof_block_type(alg) > 0
    /\ output = <<>>

\* C3: digest() does not change the object it is called on: m_count, every
\* byte of m_block and every word of m_state are as before the call; the marker,
\* the padding and the length are absorbed by the copy only.
C3_DigestDoesNotMutate ==
    [][output' # <<>> =>
          /\ UNCHANGED <<m_count, m_block, m_state>>
          /\ hasher'.m_count > m_count']_vars

\* digest() has run on an object with a partly filled buffer and compressed
\* blocks; the copy has absorbed the padding, the object has not
C3_Witness ==
    /\ output # <<>>
    /\ Len(calls) >= 1
    /\ m_count % sizeof_block_type(alg) # 0
    /\ Len(hasher.calls) > Len(calls)

\* C4: (a) a digest() call that directly follows a digest() call returns the
\* same bytes; (b) digest() calls made between the update() calls do not change
\* what a later digest() returns: it is the digest of a fresh hasher fed the
\* concatenation of everything passed to update().
C4_IdempotentFinalize ==
    /\ [][(output # <<>> /\ output' # <<>>) => output' = output]_vars
    /\ [](output # <<>> =>
            /\ digest(alg, Self).result = output
            /\ output = digest(alg, update(alg, New(alg), fed, Len(fed))).result)

\* digest() was called, then update(), and digest() again after the last block
C4_Witness ==
    /\ resumed
    /\ output # <<>>
    /\ Len(calls) = MaxBlocks

\* what the copy made by digest() absorbed after the n bytes of the object
Padding == SubSeq(hasher.fed, m_count + 1, Len(hasher.fed))

\* the last `width` bytes the copy absorbed
LengthField(width) == SubSeq(hasher.fed, Len(hasher.fed) - width + 1, Len(hasher.fed))

\* C5: digest() feeds its copy exactly 0x80, then z zero bytes, then the L-byte
\* length field, where z is the smallest z >= 0 with (n + 1 + z + L) mod B = 0;
\* the padded stream is the smallest multiple of B that is >= n + 1 + L, and
\* the length field is the last L bytes of the final block compressed.
C5_PaddingLayout ==
    output # <<>> =>
        LET B == sizeof_block_type(alg)
            L == sizeof_size_type(alg)
            n == m_count
            z == CHOOSE z \in 0..(B - 1) :
                     /\ (n + 1 + z + L) % B = 0
                     /\ \A y \in 0..(z - 1) : (n + 1 + y + L) % B # 0
        IN  /\ SubSeq(hasher.fed, 1, n) = fed
            /\ Padding = <<128>> \o Fill(z, 0) \o LengthField(L)
            /\ Len(hasher.fed) = ((n + 1 + L + B - 1) \div B) * B
            /\ hasher.m_count = Len(hasher.fed)
            /\ Len(hasher.calls) = Len(hasher.fed) \div B
            /\ SubSeq(hasher.calls[Len(hasher.calls)], B - L + 1, B) = LengthField(L)

\* digest() on a stream with n mod B = B - L: marker and length field do not fit
\* the pending block, z = B - 1 and one more block is compressed
C5_Witness ==
    /\ output # <<>>
    /\ m_count % sizeof_block_type(alg) =
           sizeof_block_type(alg) - sizeof_size_type(alg)
    /\ Len(hasher.calls) = Len(calls) + 2

\* C6: the length field holds 8 * n, the bit length of the bytes the object had
\* absorbed when digest() was called, not the bit length of the padded stream.
C6_LengthIsMessageBits ==
    output # <<>> =>
        LET L == sizeof_size_type(alg)
            value == IF SwapsBytes(alg) THEN h2be(LengthField(L)) ELSE LengthField(L)
        IN  /\ value = ToWord(8 * m_count, L)
            /\ value # ToWord(8 * hasher.m_count, L)

\* digest() after two full blocks: 8 * n takes more than one byte
C6_Witness ==
    /\ output # <<>>
    /\ m_count = MaxBlocks * sizeof_block_type(alg)

\* C7: the length field is 8 bytes wide in MD4, MD5, RMD, SHA1 and SHA2<256, *>
\* and 16 bytes wide in SHA2<512, *>; MD4, MD5 and RMD store it least
\* significant byte first, SHA1 and SHA2 most significant byte first (all 16
\* bytes reversed in SHA2<512, *>).
C7_LengthFieldWidthAndOrder ==
    output # <<>> =>
        LET width == IF alg \in {"SHA2_512_224", "SHA2_512_256",
                                 "SHA2_512_384", "SHA2_512_512"} THEN 16 ELSE 8
            zeros == PadCount(alg, [m_count |-> m_count + 1])
        IN  /\ Len(hasher.fed) = m_count + 1 + zeros + width
            /\ \A j \in 1..width :
                   LengthField(width)[j] =
                       IF alg \in {"MD4", "MD5", "RMD128", "RMD160", "RMD256", "RMD320"}
                       THEN ToWord(8 * m_count, width)[j]
                       ELSE ToWord(8 * m_count, width)[width + 1 - j]

\* digest() of a SHA2<512, *> object holding more than 31 bytes: a 16-byte field
\* whose two low bytes are not zero, stored most significant byte first
C7_Witness ==
    /\ output # <<>>
    /\ sizeof_size_type(alg) = 16
    /\ m_count > 31
    /\ hasher.fed[Len(hasher.fed) - 1] # 0

\* the chaining state after compress() has run on each of `blocks` in turn
Chained(a, blocks) ==
    Iterate(LAMBDA s, k : compress(a, s, blocks[k]), InitialState(a), 1, Len(blocks))

\* C8: byte j of the output of SHA1 and SHA2 is byte w - 1 - (j mod w), counted
\* from the least significant end, of word floor(j / w) of the final chaining
\* state (w = 4, or 8 in SHA2<512, *>); byte j of the output of MD4, MD5 and RMD
\* is byte j mod 4 of word floor(j / 4).
C8_OutputByteOrder ==
    output # <<>> =>
        \A final \in {Chained(alg, hasher.calls)} :
            LET w == IF state_bits(alg) = 512 THEN 8 ELSE 4
            IN  \A j \in 0..(Len(output) - 1) :
                    output[j + 1] =
                        IF alg \in {"SHA1", "SHA2_256_224", "SHA2_256_256", "SHA2_512_224",
                                    "SHA2_512_256", "SHA2_512_384", "SHA2_512_512"}
                        THEN final[(j \div w) + 1][w - (j % w)]
                        ELSE final[(j \div 4) + 1][(j % 4) + 1]

\* a SHA2<512, 224> digest of a non-empty stream: 28 bytes, three words and a half
C8_Witness ==
    /\ alg = "SHA2_512_224"
    /\ output # <<>>
    /\ m_count > 0

\* C9: digest() returns 16 bytes for MD4, MD5 and RMD<128>; 20 for SHA1 and
\* RMD<160>; 28 for SHA2<256,224> and SHA2<512,224>; 32 for SHA2<256,256>,
\* SHA2<512,256> and RMD<256>; 48 for SHA2<512,384>; 64 for SHA2<512,512>; 40 for
\* RMD<320>.
C9_OutputSizes ==
    output # <<>> =>
        Len(output) =
            CASE alg \in {"MD4", "MD5", "RMD128"} -> 16
              [] alg \in {"SHA1", "RMD160"} -> 20
              [] alg \in {"SHA2_256_224", "SHA2_512_224"} -> 28
              [] alg \in {"SHA2_256_256", "SHA2_512_256", "RMD256"} -> 32
              [] alg = "SHA2_512_384" -> 48
              [] alg = "SHA2_512_512" -> 64
              [] alg = "RMD320" -> 40

\* a digest shorter than the chaining state it is taken from
C9_Witness ==
    /\ output # <<>>
    /\ Len(output) < Len(Bytes(hasher.m_state))

\* SHA2<state_bits, state_bits>, the untruncated class of the same width
Untruncated(a) == IF state_bits(a) = 256 THEN "SHA2_256_256" ELSE "SHA2_512_512"

\* C10: SHA2<S, O> runs the compression function of SHA2<S, S> and differs from it
\* only in the initial state and in digest() returning the leading O / 8 bytes:
\* a SHA2<S, S> hasher started from the initial state of SHA2<S, O> reaches the
\* same chaining state on the same stream, and its digest begins with the digest
\* of SHA2<S, O>.  The initial states differ, and the digest of SHA2<S, O> is not
\* the prefix of the SHA2<S, S> digest of the same stream.
C10_TruncatedSHA2 ==
    Class(alg) = "SHA2" =>
        /\ update(Untruncated(alg),
                  [New(Untruncated(alg)) EXCEPT !.m_state = InitialState(alg)],
                  fed, Len(fed)).m_state = m_state
        /\ output # <<>> =>
               \A wide \in {digest(Untruncated(alg), Self)} :
                   /\ wide.hasher.m_state = hasher.m_state
                   /\ wide.hasher.calls = hasher.calls
                   /\ output = SubSeq(wide.result, 1, output_bits(alg) \div 8)
        /\ alg # Untruncated(alg) =>
               /\ InitialState(alg) # InitialState(Untruncated(alg))
               /\ output # <<>> =>
                      output # SubSeq(digest(Untruncated(alg),
                                             update(Untruncated(alg), New(Untruncated(alg)),
                                                    fed, Len(fed))).result,
                                      1, Len(output))

\* a digest of a truncated class taken after a block was compressed
C10_Witness ==
    /\ alg \in {"SHA2_256_224", "SHA2_512_224", "SHA2_512_256", "SHA2_512_384"}
    /\ output # <<>>
    /\ Len(calls) >= 1

(***************************************************************************)
(* A caller that passes runs of equal bytes with update(count, byte).      *)
(***************************************************************************)
\* the counts of the fill calls: nothing; B - 1, which leaves one byte of the
\* block free or straddles a block boundary; B + 1, a whole block and a byte
FillCounts(a) == {0, sizeof_block_type(a) - 1, sizeof_block_type(a) + 1}

\* the byte a fill call repeats, by the stream position p it starts at:
\* 'a', 0x00 or 0x80
FillByte(p) == IF p = 0 THEN 97 ELSE IF p % 4 = 3 THEN 0 ELSE 128

\* a call update(count, byte)
UpdateFill ==
    \E count \in FillCounts(alg) :
        /\ m_count + count <= MaxBlocks * sizeof_block_type(alg)
        /\ \E next \in {update_fill(alg, Self, count, FillByte(m_count))} :
               /\ m_count' = next.m_count
               /\ m_block' = next.m_block
               /\ m_state' = next.m_state
               /\ fed' = next.fed
               /\ calls' = next.calls
        /\ output' = <<>>
        /\ hasher' = New(alg)
        /\ resumed' = (resumed \/ output # <<>>)
        /\ UNCHANGED <<alg, hmac, frame, run>>

\* a call update(input, 0): a pointer and the count zero; no byte may be read
UpdateEmpty ==
    /\ \E next \in {update(alg, Self, <<>>, 0)} :
           /\ m_count' = next.m_count
           /\ m_block' = next.m_block
           /\ m_state' = next.m_state
           /\ fed' = next.fed
           /\ calls' = next.calls
    /\ output' = <<>>
    /\ hasher' = New(alg)
    /\ resumed' = (resumed \/ output # <<>>)
    /\ UNCHANGED <<alg, hmac, frame, run>>

NextFill == UpdateFill \/ UpdateEmpty \/ Digest

SpecFill == Init /\ [][NextFill]_vars

\* the bytes appended to the stream by a step
Appended == SubSeq(fed', Len(fed) + 1, Len(fed'))

\* C11: update(N, b) leaves the hasher with the same m_count, chaining state and
\* valid buffer prefix as update(p, N) with p pointing to N bytes equal to b
\* would have left it, from every reachable state; and the digest of a stream
\* passed by fill calls is the digest of a fresh hasher given the same bytes
\* through the pointer overload.
C11_FillEqualsExplicitBytes ==
    /\ [][(output' = <<>> /\ fed' # fed) =>
             \A explicit \in {update(alg, Self, Appended, Len(Appended))} :
                 /\ m_count' = explicit.m_count
                 /\ m_state' = explicit.m_state
                 /\ calls' = explicit.calls
                 /\ SubSeq(m_block', 1, m_count' % sizeof_block_type(alg))
                        = Pending(alg, explicit)]_vars
    /\ [](output # <<>> =>
             output = digest(alg, update(alg, New(alg), fed, Len(fed))).result)

\* two fill calls with different bytes, the second straddling the block boundary,
\* and a digest
C11_Witness ==
    /\ m_count = 2 * (sizeof_block_type(alg) - 1)
    /\ fed[1] = 97
    /\ fed[Len(fed)] = 0
    /\ output # <<>>

(***************************************************************************)
(* A caller that passes its data with the convenience overloads.           *)
(***************************************************************************)
\* sizeof(input_type) of the values passed to update(const input_type&)
ValueSizes(a) == {sizeof_block_type(a) - 1, sizeof_block_type(a) + 1}

\* the number of stream bytes copied into a string, in front of its terminator
TextLengths(a) == {0, sizeof_block_type(a) - 1, sizeof_block_type(a) + 1}

\* the calls update(count, value) as <<count, sizeof(value)>>: no repetition and
\* three repetitions of half a block, and B + 1 repetitions of a single char
RepeatCalls(a) ==
    {<<0, sizeof_block_type(a) \div 2>>,
     <<3, sizeof_block_type(a) \div 2>>,
     <<sizeof_block_type(a) + 1, 1>>}

\* a string holding `bytes`: a terminator follows, and the rest of the array
Text(bytes) == bytes \o <<0, 255>>

\* count copies of the bytes of value, one after the other
Copies(count, value) ==
    Tuple([i \in 1..(count * Len(value)) |-> value[((i - 1) % Len(value)) + 1]])

\* a call update(value) with a value whose object bytes are the next stream bytes
UpdateValue ==
    \E width \in ValueSizes(alg) :
        /\ m_count + width <= MaxBlocks * sizeof_block_type(alg)
        /\ \E next \in {update_value(alg, Self, Chunk(m_count, width))} :
               /\ m_count' = next.m_count
               /\ m_block' = next.m_block
               /\ m_state' = next.m_state
               /\ fed' = next.fed
               /\ calls' = next.calls
        /\ output' = <<>>
        /\ hasher' = New(alg)
        /\ resumed' = (resumed \/ output # <<>>)
        /\ UNCHANGED <<alg, hmac, frame, run>>

\* a call update(text) with a string made of the next stream bytes
UpdateText ==
    \E length \in TextLengths(alg) :
        /\ m_count + length <= MaxBlocks * sizeof_block_type(alg)
        /\ \E next \in {update_text(alg, Self, Text(Chunk(m_count, length)))} :
               /\ m_count' = next.m_count
               /\ m_block' = next.m_block
               /\ m_state' = next.m_state
               /\ fed' = next.fed
               /\ calls' = next.calls
        /\ output' = <<>>
        /\ hasher' = New(alg)
        /\ resumed' = (resumed \/ output # <<>>)
        /\ UNCHANGED <<alg, hmac, frame, run>>

\* a call update(count, value) with a value or a string made of the next stream
\* bytes
UpdateRepeat ==
    \E call \in RepeatCalls(alg), text \in BOOLEAN :
        /\ m_count + call[1] * call[2] <= MaxBlocks * sizeof_block_type(alg)
        /\ \E next \in {update_repeat(alg, Self, call[1],
                                      IF text THEN Text(Chunk(m_count, call[2]))
                                              ELSE Chunk(m_count, call[2]),
                                      text)} :
               /\ m_count' = next.m_count
               /\ m_block' = next.m_block
               /\ m_state' = next.m_state
               /\ fed' = next.fed
               /\ calls' = next.calls
        /\ output' = <<>>
        /\ hasher' = New(alg)
        /\ resumed' = (resumed \/ output # <<>>)
        /\ UNCHANGED <<alg, hmac, frame, run>>

NextOverloads == UpdateValue \/ UpdateText \/ UpdateRepeat \/ Digest

SpecOverloads == Init /\ [][NextOverloads]_vars

\* the bytes of a string in front of its first zero byte
BeforeZero(bytes) == SubSeq(Text(bytes), 1, strlen(Text(bytes)))

\* C12: every call of a convenience overload appends what the claim says, the
\* sizeof(value) object bytes of a value, the bytes of a string in front of its
\* first zero byte without the terminator, or count copies of one of these, and
\* leaves the hasher as the byte-oriented update(bytes, count) on the appended
\* bytes does; the digest is that of a fresh hasher given the appended bytes in
\* one byte-oriented call.
C12_OverloadsReduceToBytes ==
    /\ [][output' = <<>> =>
             /\ \/ \E width \in ValueSizes(alg) : Appended = Chunk(m_count, width)
                \/ \E length \in TextLengths(alg) :
                       Appended = BeforeZero(Chunk(m_count, length))
                \/ \E call \in RepeatCalls(alg) :
                       \/ Appended = Copies(call[1], Chunk(m_count, call[2]))
                       \/ Appended = Copies(call[1], BeforeZero(Chunk(m_count, call[2])))
             /\ \A bytewise \in {update(alg, Self, Appended, Len(Appended))} :
                    /\ m_count' = bytewise.m_count
                    /\ m_state' = bytewise.m_state
                    /\ calls' = bytewise.calls
                    /\ SubSeq(m_block', 1, m_count' % sizeof_block_type(alg))
                           = Pending(alg, bytewise)]_vars
    /\ [](output # <<>> =>
             output = digest(alg, update(alg, New(alg), fed, Len(fed))).result)

\* update(3, value) with a value of half a block, then digest(): the stream is
\* three copies of the value
C12_Witness ==
    /\ m_count = 3 * (sizeof_block_type(alg) \div 2)
    /\ fed = Copies(3, Chunk(0, sizeof_block_type(alg) \div 2))
    /\ output # <<>>

\* C13: size() is the number of bytes passed to update() since construction, 0
\* for a fresh hasher: an update() step adds the number of bytes it was given,
\* whether or not it compressed a block, and a digest() step leaves it as it
\* is (the padding is counted in the copy only).
C13_SizeCountsBytes ==
    /\ [](size(Self) = Len(fed))
    /\ [][/\ output' = <<>> => size(Self') = size(Self) + Len(Appended)
          /\ output' # <<>> => /\ size(Self') = size(Self)
                               /\ size(hasher') > size(Self')]_vars

\* more than a block was passed, in updates that did and did not compress, and
\* digest() was called
C13_Witness ==
    /\ size(Self) > sizeof_block_type(alg)
    /\ size(Self) % sizeof_block_type(alg) # 0
    /\ output # <<>>
    /\ size(hasher) % sizeof_block_type(alg) = 0

\* C14: update() with count == 0 does nothing, in every reachable state and for
\* both update(0, byte) and update(input, 0): no block is compressed, no byte of
\* m_block is written, no input byte is read (the model passes an empty input),
\* and m_count and m_state stay as they are.
C14_ZeroCountIsNoOp ==
    /\ [](/\ update(alg, Self, <<>>, 0) = Self
          /\ \A byte \in {0, 97, 128, 255} : update_fill(alg, Self, 0, byte) = Self)
    /\ [][(output' = <<>> /\ fed' = fed) =>
              UNCHANGED <<m_count, m_block, m_state, calls>>]_vars

\* digest() and then a call with count == 0 on a fresh hasher, whose buffer is empty
C14_Witness ==
    /\ m_count = 0
    /\ resumed
    /\ output = <<>>
(***************************************************************************)
(* The self-tests: every assert of the main() functions that hashes a      *)
(* string literal, as the message and the digest it is compared with.      *)
(***************************************************************************)
\* the string literals hashed by the self-tests, without their terminators
Messages ==
    <<
      \* 1: ""
      <<>>,
      \* 2: "a"
      <<97>>,
      \* 3: "abc"
      <<97, 98, 99>>,
      \* 4: "message digest"
      <<109, 101, 115, 115, 97, 103, 101, 32, 100, 105, 103, 101, 115, 116>>,
      \* 5: "abcdefghijklmnopqrstuvwxyz"
      <<97, 98, 99, 100, 101, 102, 103, 104, 105, 106, 107, 108, 109, 110, 111,
        112, 113, 114, 115, 116, 117, 118, 119, 120, 121, 122>>,
      \* 6: "abcdbcdecdefdefgefghfghighijhijkijkljklmklmnlmnomnopnopq"
      <<97, 98, 99, 100, 98, 99, 100, 101, 99, 100, 101, 102, 100, 101, 102, 103,
        101, 102, 103, 104, 102, 103, 104, 105, 103, 104, 105, 106, 104, 105, 106,
        107, 105, 106, 107, 108, 106, 107, 108, 109, 107, 108, 109, 110, 108, 109,
        110, 111, 109, 110, 111, 112, 110, 111, 112, 113>>,
      \* 7: "ABCDEFGHIJKLMNOPQRSTUVWXYZabcdefghijklmnopqrstuvwxyz0123456789"
      <<65, 66, 67, 68, 69, 70, 71, 72, 73, 74, 75, 76, 77, 78, 79, 80, 81, 82,
        83, 84, 85, 86, 87, 88, 89, 90, 97, 98, 99, 100, 101, 102, 103, 104, 105,
        106, 107, 108, 109, 110, 111, 112, 113, 114, 115, 116, 117, 118, 119, 120,
        121, 122, 48, 49, 50, 51, 52, 53, 54, 55, 56, 57>>,
      \* 8: "12345678901234567890123456789012345678901234567890123456789012345678901234567890"
      <<49, 50, 51, 52, 53, 54, 55, 56, 57, 48, 49, 50, 51, 52, 53, 54, 55, 56,
        57, 48, 49, 50, 51, 52, 53, 54, 55, 56, 57, 48, 49, 50, 51, 52, 53, 54,
        55, 56, 57, 48, 49, 50, 51, 52, 53, 54, 55, 56, 57, 48, 49, 50, 51, 52,
        53, 54, 55, 56, 57, 48, 49, 50, 51, 52, 53, 54, 55, 56, 57, 48, 49, 50,
        51, 52, 53, 54, 55, 56, 57, 48>>,
      \* 9: "abcdefghbcdefghicdefghijdefghijkefghijklfghijklmghijklmnhijklmnoijklmnopjklmnopqklmnopqrlmnopqrsmnopqrstnopqrstu"
      <<97, 98, 99, 100, 101, 102, 103, 104, 98, 99, 100, 101, 102, 103, 104, 105,
        99, 100, 101, 102, 103, 104, 105, 106, 100, 101, 102, 103, 104, 105, 106,
        107, 101, 102, 103, 104, 105, 106, 107, 108, 102, 103, 104, 105, 106, 107,
        108, 109, 103, 104, 105, 106, 107, 108, 109, 110, 104, 105, 106, 107, 108,
        109, 110, 111, 105, 106, 107, 108, 109, 110, 111, 112, 106, 107, 108, 109,
        110, 111, 112, 113, 107, 108, 109, 110, 111, 112, 113, 114, 108, 109, 110,
        111, 112, 113, 114, 115, 109, 110, 111, 112, 113, 114, 115, 116, 110, 111,
        112, 113, 114, 115, 116, 117>>
    >>

\* main() of md4.hh: assert("..." == md4("..."))
md4_vectors ==
    <<
      [input |-> Messages[1],
       digest |-> <<\h31, \hD6, \hCF, \hE0, \hD1, \h6A, \hE9, \h31, \hB7, \h3C,
                    \h59, \hD7, \hE0, \hC0, \h89, \hC0>>],
      [input |-> Messages[2],
       digest |-> <<\hBD, \hE5, \h2C, \hB3, \h1D, \hE3, \h3E, \h46, \h24, \h5E,
                    \h05, \hFB, \hDB, \hD6, \hFB, \h24>>],
      [input |-> Messages[3],
       digest |-> <<\hA4, \h48, \h01, \h7A, \hAF, \h21, \hD8, \h52, \h5F, \hC1,
                    \h0A, \hE8, \h7A, \hA6, \h72, \h9D>>],
      [input |-> Messages[4],
       digest |-> <<\hD9, \h13, \h0A, \h81, \h64, \h54, \h9F, \hE8, \h18, \h87,
                    \h48, \h06, \hE1, \hC7, \h01, \h4B>>],
      [input |-> Messages[5],
       digest |-> <<\hD7, \h9E, \h1C, \h30, \h8A, \hA5, \hBB, \hCD, \hEE, \hA8,
                    \hED, \h63, \hDF, \h41, \h2D, \hA9>>],
      [input |-> Messages[6],
       digest |-> <<\h46, \h91, \hA9, \hEC, \h81, \hB1, \hA6, \hBD, \h1A, \hB8,
                    \h55, \h72, \h40, \hB2, \h45, \hC5>>],
      [input |-> Messages[7],
       digest |-> <<\h04, \h3F, \h85, \h82, \hF2, \h41, \hDB, \h35, \h1C, \hE6,
                    \h27, \hE1, \h53, \hE7, \hF0, \hE4>>],
      [input |-> Messages[8],
       digest |-> <<\hE3, \h3B, \h4D, \hDC, \h9C, \h38, \hF2, \h19, \h9C, \h3E,
                    \h7B, \h16, \h4F, \hCC, \h05, \h36>>]
    >>

\* main() of the MD5 header: assert("..." == md5("..."))
md5_vectors ==
    <<
      [input |-> Messages[1],
       digest |-> <<\hD4, \h1D, \h8C, \hD9, \h8F, \h00, \hB2, \h04, \hE9, \h80,
                    \h09, \h98, \hEC, \hF8, \h42, \h7E>>],
      [input |-> Messages[2],
       digest |-> <<\h0C, \hC1, \h75, \hB9, \hC0, \hF1, \hB6, \hA8, \h31, \hC3,
                    \h99, \hE2, \h69, \h77, \h26, \h61>>],
      [input |-> Messages[3],
       digest |-> <<\h90, \h01, \h50, \h98, \h3C, \hD2, \h4F, \hB0, \hD6, \h96,
                    \h3F, \h7D, \h28, \hE1, \h7F, \h72>>],
      [input |-> Messages[4],
       digest |-> <<\hF9, \h6B, \h69, \h7D, \h7C, \hB7, \h93, \h8D, \h52, \h5A,
                    \h2F, \h31, \hAA, \hF1, \h61, \hD0>>],
      [input |-> Messages[5],
       digest |-> <<\hC3, \hFC, \hD3, \hD7, \h61, \h92, \hE4, \h00, \h7D, \hFB,
                    \h49, \h6C, \hCA, \h67, \hE1, \h3B>>],
      [input |-> Messages[6],
       digest |-> <<\h82, \h15, \hEF, \h07, \h96, \hA2, \h0B, \hCA, \hAA, \hE1,
                    \h16, \hD3, \h87, \h6C, \h66, \h4A>>],
      [input |-> Messages[7],
       digest |-> <<\hD1, \h74, \hAB, \h98, \hD2, \h77, \hD9, \hF5, \hA5, \h61,
                    \h1C, \h2C, \h9F, \h41, \h9D, \h9F>>],
      [input |-> Messages[8],
       digest |-> <<\h57, \hED, \hF4, \hA2, \h2B, \hE3, \hC9, \h55, \hAC, \h49,
                    \hDA, \h2E, \h21, \h07, \hB6, \h7A>>]
    >>

\* main() of the RIPEMD header: assert("..." == rmd<state_bits>("..."))
rmd_vectors(a) ==
    CASE a = "RMD128" ->
        <<
          [input |-> Messages[1],
           digest |-> <<\hCD, \hF2, \h62, \h13, \hA1, \h50, \hDC, \h3E, \hCB,
                        \h61, \h0F, \h18, \hF6, \hB3, \h8B, \h46>>],
          [input |-> Messages[2],
           digest |-> <<\h86, \hBE, \h7A, \hFA, \h33, \h9D, \h0F, \hC7, \hCF,
                        \hC7, \h85, \hE7, \h2F, \h57, \h8D, \h33>>],
          [input |-> Messages[3],
           digest |-> <<\hC1, \h4A, \h12, \h19, \h9C, \h66, \hE4, \hBA, \h84,
                        \h63, \h6B, \h0F, \h69, \h14, \h4C, \h77>>],
          [input |-> Messages[4],
           digest |-> <<\h9E, \h32, \h7B, \h3D, \h6E, \h52, \h30, \h62, \hAF,
                        \hC1, \h13, \h2D, \h7D, \hF9, \hD1, \hB8>>],
          [input |-> Messages[5],
           digest |-> <<\hFD, \h2A, \hA6, \h07, \hF7, \h1D, \hC8, \hF5, \h10,
                        \h71, \h49, \h22, \hB3, \h71, \h83, \h4E>>],
          [input |-> Messages[6],
           digest |-> <<\hA1, \hAA, \h06, \h89, \hD0, \hFA, \hFA, \h2D, \hDC,
                        \h22, \hE8, \h8B, \h49, \h13, \h3A, \h06>>],
          [input |-> Messages[7],
           digest |-> <<\hD1, \hE9, \h59, \hEB, \h17, \h9C, \h91, \h1F, \hAE,
                        \hA4, \h62, \h4C, \h60, \hC5, \hC7, \h02>>],
          [input |-> Messages[8],
           digest |-> <<\h3F, \h45, \hEF, \h19, \h47, \h32, \hC2, \hDB, \hB2,
                        \hC4, \hA2, \hC7, \h69, \h79, \h5F, \hA3>>]
        >>
      [] a = "RMD160" ->
        <<
          [input |-> Messages[1],
           digest |-> <<\h9C, \h11, \h85, \hA5, \hC5, \hE9, \hFC, \h54, \h61,
                        \h28, \h08, \h97, \h7E, \hE8, \hF5, \h48, \hB2, \h25,
                        \h8D, \h31>>],
          [input |-> Messages[2],
           digest |-> <<\h0B, \hDC, \h9D, \h2D, \h25, \h6B, \h3E, \hE9, \hDA,
                        \hAE, \h34, \h7B, \hE6, \hF4, \hDC, \h83, \h5A, \h46,
                        \h7F, \hFE>>],
          [input |-> Messages[3],
           digest |-> <<\h8E, \hB2, \h08, \hF7, \hE0, \h5D, \h98, \h7A, \h9B,
                        \h04, \h4A, \h8E, \h98, \hC6, \hB0, \h87, \hF1, \h5A,
                        \h0B, \hFC>>],
          [input |-> Messages[4],
           digest |-> <<\h5D, \h06, \h89, \hEF, \h49, \hD2, \hFA, \hE5, \h72,
                        \hB8, \h81, \hB1, \h23, \hA8, \h5F, \hFA, \h21, \h59,
                        \h5F, \h36>>],
          [input |-> Messages[5],
           digest |-> <<\hF7, \h1C, \h27, \h10, \h9C, \h69, \h2C, \h1B, \h56,
                        \hBB, \hDC, \hEB, \h5B, \h9D, \h28, \h65, \hB3, \h70,
                        \h8D, \hBC>>],
          [input |-> Messages[6],
           digest |-> <<\h12, \hA0, \h53, \h38, \h4A, \h9C, \h0C, \h88, \hE4,
                        \h05, \hA0, \h6C, \h27, \hDC, \hF4, \h9A, \hDA, \h62,
                        \hEB, \h2B>>],
          [input |-> Messages[7],
           digest |-> <<\hB0, \hE2, \h0B, \h6E, \h31, \h16, \h64, \h02, \h86,
                        \hED, \h3A, \h87, \hA5, \h71, \h30, \h79, \hB2, \h1F,
                        \h51, \h89>>],
          [input |-> Messages[8],
           digest |-> <<\h9B, \h75, \h2E, \h45, \h57, \h3D, \h4B, \h39, \hF4,
                        \hDB, \hD3, \h32, \h3C, \hAB, \h82, \hBF, \h63, \h32,
                        \h6B, \hFB>>]
        >>
      [] a = "RMD256" ->
        <<
          [input |-> Messages[1],
           digest |-> <<\h02, \hBA, \h4C, \h4E, \h5F, \h8E, \hCD, \h18, \h77,
                        \hFC, \h52, \hD6, \h4D, \h30, \hE3, \h7A, \h2D, \h97,
                        \h74, \hFB, \h1E, \h5D, \h02, \h63, \h80, \hAE, \h01,
                        \h68, \hE3, \hC5, \h52, \h2D>>],
          [input |-> Messages[2],
           digest |-> <<\hF9, \h33, \h3E, \h45, \hD8, \h57, \hF5, \hD9, \h0A,
                        \h91, \hBA, \hB7, \h0A, \h1E, \hBA, \h0C, \hFB, \h1B,
                        \hE4, \hB0, \h78, \h3C, \h9A, \hCF, \hCD, \h88, \h3A,
                        \h91, \h34, \h69, \h29, \h25>>],
          [input |-> Messages[3],
           digest |-> <<\hAF, \hBD, \h6E, \h22, \h8B, \h9D, \h8C, \hBB, \hCE,
                        \hF5, \hCA, \h2D, \h03, \hE6, \hDB, \hA1, \h0A, \hC0,
                        \hBC, \h7D, \hCB, \hE4, \h68, \h0E, \h1E, \h42, \hD2,
                        \hE9, \h75, \h45, \h9B, \h65>>],
          [input |-> Messages[4],
           digest |-> <<\h87, \hE9, \h71, \h75, \h9A, \h1C, \hE4, \h7A, \h51,
                        \h4D, \h5C, \h91, \h4C, \h39, \h2C, \h90, \h18, \hC7,
                        \hC4, \h6B, \hC1, \h44, \h65, \h55, \h4A, \hFC, \hDF,
                        \h54, \hA5, \h07, \h0C, \h0E>>],
          [input |-> Messages[5],
           digest |-> <<\h64, \h9D, \h30, \h34, \h75, \h1E, \hA2, \h16, \h77,
                        \h6B, \hF9, \hA1, \h8A, \hCC, \h81, \hBC, \h78, \h96,
                        \h11, \h8A, \h51, \h97, \h96, \h87, \h82, \hDD, \h1F,
                        \hD9, \h7D, \h8D, \h51, \h33>>],
          [input |-> Messages[6],
           digest |-> <<\h38, \h43, \h04, \h55, \h83, \hAA, \hC6, \hC8, \hC8,
                        \hD9, \h12, \h85, \h73, \hE7, \hA9, \h80, \h9A, \hFB,
                        \h2A, \h0F, \h34, \hCC, \hC3, \h6E, \hA9, \hE7, \h2F,
                        \h16, \hF6, \h36, \h8E, \h3F>>],
          [input |-> Messages[7],
           digest |-> <<\h57, \h40, \hA4, \h08, \hAC, \h16, \hB7, \h20, \hB8,
                        \h44, \h24, \hAE, \h93, \h1C, \hBB, \h1F, \hE3, \h63,
                        \hD1, \hD0, \hBF, \h40, \h17, \hF1, \hA8, \h9F, \h7E,
                        \hA6, \hDE, \h77, \hA0, \hB8>>],
          [input |-> Messages[8],
           digest |-> <<\h06, \hFD, \hCC, \h7A, \h40, \h95, \h48, \hAA, \hF9,
                        \h13, \h68, \hC0, \h6A, \h62, \h75, \hB5, \h53, \hE3,
                        \hF0, \h99, \hBF, \h0E, \hA4, \hED, \hFD, \h67, \h78,
                        \hDF, \h89, \hA8, \h90, \hDD>>]
        >>
      [] a = "RMD320" ->
        <<
          [input |-> Messages[1],
           digest |-> <<\h22, \hD6, \h5D, \h56, \h61, \h53, \h6C, \hDC, \h75,
                        \hC1, \hFD, \hF5, \hC6, \hDE, \h7B, \h41, \hB9, \hF2,
                        \h73, \h25, \hEB, \hC6, \h1E, \h85, \h57, \h17, \h7D,
                        \h70, \h5A, \h0E, \hC8, \h80, \h15, \h1C, \h3A, \h32,
                        \hA0, \h08, \h99, \hB8>>],
          [input |-> Messages[2],
           digest |-> <<\hCE, \h78, \h85, \h06, \h38, \hF9, \h26, \h58, \hA5,
                        \hA5, \h85, \h09, \h75, \h79, \h92, \h6D, \hDA, \h66,
                        \h7A, \h57, \h16, \h56, \h2C, \hFC, \hF6, \hFB, \hE7,
                        \h7F, \h63, \h54, \h2F, \h99, \hB0, \h47, \h05, \hD6,
                        \h97, \h0D, \hFF, \h5D>>],
          [input |-> Messages[3],
           digest |-> <<\hDE, \h4C, \h01, \hB3, \h05, \h4F, \h89, \h30, \hA7,
                        \h9D, \h09, \hAE, \h73, \h8E, \h92, \h30, \h1E, \h5A,
                        \h17, \h08, \h5B, \hEF, \hFD, \hC1, \hB8, \hD1, \h16,
                        \h71, \h3E, \h74, \hF8, \h2F, \hA9, \h42, \hD6, \h4C,
                        \hDB, \hC4, \h68, \h2D>>],
          [input |-> Messages[4],
           digest |-> <<\h3A, \h8E, \h28, \h50, \h2E, \hD4, \h5D, \h42, \h2F,
                        \h68, \h84, \h4F, \h9D, \hD3, \h16, \hE7, \hB9, \h85,
                        \h33, \hFA, \h3F, \h2A, \h91, \hD2, \h9F, \h84, \hD4,
                        \h25, \hC8, \h8D, \h6B, \h4E, \hFF, \h72, \h7D, \hF6,
                        \h6A, \h7C, \h01, \h97>>],
          [input |-> Messages[5],
           digest |-> <<\hCA, \hBD, \hB1, \h81, \h0B, \h92, \h47, \h0A, \h20,
                        \h93, \hAA, \h6B, \hCE, \h05, \h95, \h2C, \h28, \h34,
                        \h8C, \hF4, \h3F, \hF6, \h08, \h41, \h97, \h51, \h66,
                        \hBB, \h40, \hED, \h23, \h40, \h04, \hB8, \h82, \h44,
                        \h63, \hE6, \hB0, \h09>>],
          [input |-> Messages[6],
           digest |-> <<\hD0, \h34, \hA7, \h95, \h0C, \hF7, \h22, \h02, \h1B,
                        \hA4, \hB8, \h4D, \hF7, \h69, \hA5, \hDE, \h20, \h60,
                        \hE2, \h59, \hDF, \h4C, \h9B, \hB4, \hA4, \h26, \h8C,
                        \h0E, \h93, \h5B, \hBC, \h74, \h70, \hA9, \h69, \hC9,
                        \hD0, \h72, \hA1, \hAC>>],
          [input |-> Messages[7],
           digest |-> <<\hED, \h54, \h49, \h40, \hC8, \h6D, \h67, \hF2, \h50,
                        \hD2, \h32, \hC3, \h0B, \h7B, \h3E, \h57, \h70, \hE0,
                        \hC6, \h0C, \h8C, \hB9, \hA4, \hCA, \hFE, \h3B, \h11,
                        \h38, \h8A, \hF9, \h92, \h0E, \h1B, \h99, \h23, \h0B,
                        \h84, \h3C, \h86, \hA4>>],
          [input |-> Messages[8],
           digest |-> <<\h55, \h78, \h88, \hAF, \h5F, \h6D, \h8E, \hD6, \h2A,
                        \hB6, \h69, \h45, \hC6, \hD2, \hA0, \hA4, \h7E, \hCD,
                        \h53, \h41, \hE9, \h15, \hEB, \h8F, \hEA, \h1D, \h05,
                        \h24, \h95, \h5F, \h82, \h5D, \hC7, \h17, \hE4, \hA0,
                        \h08, \hAB, \h2D, \h42>>]
        >>

\* main() of the SHA-1 header: assert("..." == sha1("..."))
sha1_vectors ==
    <<
      [input |-> Messages[1],
       digest |-> <<\hDA, \h39, \hA3, \hEE, \h5E, \h6B, \h4B, \h0D, \h32, \h55,
                    \hBF, \hEF, \h95, \h60, \h18, \h90, \hAF, \hD8, \h07, \h09>>],
      [input |-> Messages[3],
       digest |-> <<\hA9, \h99, \h3E, \h36, \h47, \h06, \h81, \h6A, \hBA, \h3E,
                    \h25, \h71, \h78, \h50, \hC2, \h6C, \h9C, \hD0, \hD8, \h9D>>],
      [input |-> Messages[6],
       digest |-> <<\h84, \h98, \h3E, \h44, \h1C, \h3B, \hD2, \h6E, \hBA, \hAE,
                    \h4A, \hA1, \hF9, \h51, \h29, \hE5, \hE5, \h46, \h70, \hF1>>],
      [input |-> Messages[9],
       digest |-> <<\hA4, \h9B, \h24, \h46, \hA0, \h2C, \h64, \h5B, \hF4, \h19,
                    \hF9, \h95, \hB6, \h70, \h91, \h25, \h3A, \h04, \hA2, \h59>>]
    >>

\* main() of the SHA-2 header: assert("..." == sha2<state_bits, output_bits>("..."))
sha2_vectors(a) ==
    CASE a = "SHA2_256_224" ->
        <<
          [input |-> Messages[1],
           digest |-> <<\hD1, \h4A, \h02, \h8C, \h2A, \h3A, \h2B, \hC9, \h47,
                        \h61, \h02, \hBB, \h28, \h82, \h34, \hC4, \h15, \hA2,
                        \hB0, \h1F, \h82, \h8E, \hA6, \h2A, \hC5, \hB3, \hE4, \h2F>>],
          [input |-> Messages[3],
           digest |-> <<\h23, \h09, \h7D, \h22, \h34, \h05, \hD8, \h22, \h86,
                        \h42, \hA4, \h77, \hBD, \hA2, \h55, \hB3, \h2A, \hAD,
                        \hBC, \hE4, \hBD, \hA0, \hB3, \hF7, \hE3, \h6C, \h9D, \hA7>>],
          [input |-> Messages[6],
           digest |-> <<\h75, \h38, \h8B, \h16, \h51, \h27, \h76, \hCC, \h5D,
                        \hBA, \h5D, \hA1, \hFD, \h89, \h01, \h50, \hB0, \hC6,
                        \h45, \h5C, \hB4, \hF5, \h8B, \h19, \h52, \h52, \h25, \h25>>],
          [input |-> Messages[9],
           digest |-> <<\hC9, \h7C, \hA9, \hA5, \h59, \h85, \h0C, \hE9, \h7A,
                        \h04, \hA9, \h6D, \hEF, \h6D, \h99, \hA9, \hE0, \hE0,
                        \hE2, \hAB, \h14, \hE6, \hB8, \hDF, \h26, \h5F, \hC0, \hB3>>]
        >>
      [] a = "SHA2_256_256" ->
        <<
          [input |-> Messages[1],
           digest |-> <<\hE3, \hB0, \hC4, \h42, \h98, \hFC, \h1C, \h14, \h9A,
                        \hFB, \hF4, \hC8, \h99, \h6F, \hB9, \h24, \h27, \hAE,
                        \h41, \hE4, \h64, \h9B, \h93, \h4C, \hA4, \h95, \h99,
                        \h1B, \h78, \h52, \hB8, \h55>>],
          [input |-> Messages[3],
           digest |-> <<\hBA, \h78, \h16, \hBF, \h8F, \h01, \hCF, \hEA, \h41,
                        \h41, \h40, \hDE, \h5D, \hAE, \h22, \h23, \hB0, \h03,
                        \h61, \hA3, \h96, \h17, \h7A, \h9C, \hB4, \h10, \hFF,
                        \h61, \hF2, \h00, \h15, \hAD>>],
          [input |-> Messages[6],
           digest |-> <<\h24, \h8D, \h6A, \h61, \hD2, \h06, \h38, \hB8, \hE5,
                        \hC0, \h26, \h93, \h0C, \h3E, \h60, \h39, \hA3, \h3C,
                        \hE4, \h59, \h64, \hFF, \h21, \h67, \hF6, \hEC, \hED,
                        \hD4, \h19, \hDB, \h06, \hC1>>],
          [input |-> Messages[9],
           digest |-> <<\hCF, \h5B, \h16, \hA7, \h78, \hAF, \h83, \h80, \h03,
                        \h6C, \hE5, \h9E, \h7B, \h04, \h92, \h37, \h0B, \h24,
                        \h9B, \h11, \hE8, \hF0, \h7A, \h51, \hAF, \hAC, \h45,
                        \h03, \h7A, \hFE, \hE9, \hD1>>]
        >>
      [] a = "SHA2_512_224" ->
        <<
          [input |-> Messages[1],
           digest |-> <<\h6E, \hD0, \hDD, \h02, \h80, \h6F, \hA8, \h9E, \h25,
                        \hDE, \h06, \h0C, \h19, \hD3, \hAC, \h86, \hCA, \hBB,
                        \h87, \hD6, \hA0, \hDD, \hD0, \h5C, \h33, \h3B, \h84, \hF4>>],
          [input |-> Messages[3],
           digest |-> <<\h46, \h34, \h27, \h0F, \h70, \h7B, \h6A, \h54, \hDA,
                        \hAE, \h75, \h30, \h46, \h08, \h42, \hE2, \h0E, \h37,
                        \hED, \h26, \h5C, \hEE, \hE9, \hA4, \h3E, \h89, \h24, \hAA>>],
          [input |-> Messages[6],
           digest |-> <<\hE5, \h30, \h2D, \h6D, \h54, \hBB, \h24, \h22, \h75,
                        \hD1, \hE7, \h62, \h2D, \h68, \hDF, \h6E, \hB0, \h2D,
                        \hED, \hD1, \h3F, \h56, \h4C, \h13, \hDB, \hDA, \h21, \h74>>],
          [input |-> Messages[9],
           digest |-> <<\h23, \hFE, \hC5, \hBB, \h94, \hD6, \h0B, \h23, \h30,
                        \h81, \h92, \h64, \h0B, \h0C, \h45, \h33, \h35, \hD6,
                        \h64, \h73, \h4F, \hE4, \h0E, \h72, \h68, \h67, \h4A, \hF9>>]
        >>
      [] a = "SHA2_512_256" ->
        <<
          [input |-> Messages[1],
           digest |-> <<\hC6, \h72, \hB8, \hD1, \hEF, \h56, \hED, \h28, \hAB,
                        \h87, \hC3, \h62, \h2C, \h51, \h14, \h06, \h9B, \hDD,
                        \h3A, \hD7, \hB8, \hF9, \h73, \h74, \h98, \hD0, \hC0,
                        \h1E, \hCE, \hF0, \h96, \h7A>>],
          [input |-> Messages[3],
           digest |-> <<\h53, \h04, \h8E, \h26, \h81, \h94, \h1E, \hF9, \h9B,
                        \h2E, \h29, \hB7, \h6B, \h4C, \h7D, \hAB, \hE4, \hC2,
                        \hD0, \hC6, \h34, \hFC, \h6D, \h46, \hE0, \hE2, \hF1,
                        \h31, \h07, \hE7, \hAF, \h23>>],
          [input |-> Messages[6],
           digest |-> <<\hBD, \hE8, \hE1, \hF9, \hF1, \h9B, \hB9, \hFD, \h34,
                        \h06, \hC9, \h0E, \hC6, \hBC, \h47, \hBD, \h36, \hD8,
                        \hAD, \hA9, \hF1, \h18, \h80, \hDB, \hC8, \hA2, \h2A,
                        \h70, \h78, \hB6, \hA4, \h61>>],
          [input |-> Messages[9],
           digest |-> <<\h39, \h28, \hE1, \h84, \hFB, \h86, \h90, \hF8, \h40,
                        \hDA, \h39, \h88, \h12, \h1D, \h31, \hBE, \h65, \hCB,
                        \h9D, \h3E, \hF8, \h3E, \hE6, \h14, \h6F, \hEA, \hC8,
                        \h61, \hE1, \h9B, \h56, \h3A>>]
        >>
      [] a = "SHA2_512_384" ->
        <<
          [input |-> Messages[1],
           digest |-> <<\h38, \hB0, \h60, \hA7, \h51, \hAC, \h96, \h38, \h4C,
                        \hD9, \h32, \h7E, \hB1, \hB1, \hE3, \h6A, \h21, \hFD,
                        \hB7, \h11, \h14, \hBE, \h07, \h43, \h4C, \h0C, \hC7,
                        \hBF, \h63, \hF6, \hE1, \hDA, \h27, \h4E, \hDE, \hBF,
                        \hE7, \h6F, \h65, \hFB, \hD5, \h1A, \hD2, \hF1, \h48,
                        \h98, \hB9, \h5B>>],
          [input |-> Messages[3],
           digest |-> <<\hCB, \h00, \h75, \h3F, \h45, \hA3, \h5E, \h8B, \hB5,
                        \hA0, \h3D, \h69, \h9A, \hC6, \h50, \h07, \h27, \h2C,
                        \h32, \hAB, \h0E, \hDE, \hD1, \h63, \h1A, \h8B, \h60,
                        \h5A, \h43, \hFF, \h5B, \hED, \h80, \h86, \h07, \h2B,
                        \hA1, \hE7, \hCC, \h23, \h58, \hBA, \hEC, \hA1, \h34,
                        \hC8, \h25, \hA7>>],
          [input |-> Messages[6],
           digest |-> <<\h33, \h91, \hFD, \hDD, \hFC, \h8D, \hC7, \h39, \h37,
                        \h07, \hA6, \h5B, \h1B, \h47, \h09, \h39, \h7C, \hF8,
                        \hB1, \hD1, \h62, \hAF, \h05, \hAB, \hFE, \h8F, \h45,
                        \h0D, \hE5, \hF3, \h6B, \hC6, \hB0, \h45, \h5A, \h85,
                        \h20, \hBC, \h4E, \h6F, \h5F, \hE9, \h5B, \h1F, \hE3,
                        \hC8, \h45, \h2B>>],
          [input |-> Messages[9],
           digest |-> <<\h09, \h33, \h0C, \h33, \hF7, \h11, \h47, \hE8, \h3D,
                        \h19, \h2F, \hC7, \h82, \hCD, \h1B, \h47, \h53, \h11,
                        \h1B, \h17, \h3B, \h3B, \h05, \hD2, \h2F, \hA0, \h80,
                        \h86, \hE3, \hB0, \hF7, \h12, \hFC, \hC7, \hC7, \h1A,
                        \h55, \h7E, \h2D, \hB9, \h66, \hC3, \hE9, \hFA, \h91,
                        \h74, \h60, \h39>>]
        >>
      [] a = "SHA2_512_512" ->
        <<
          [input |-> Messages[1],
           digest |-> <<\hCF, \h83, \hE1, \h35, \h7E, \hEF, \hB8, \hBD, \hF1,
                        \h54, \h28, \h50, \hD6, \h6D, \h80, \h07, \hD6, \h20,
                        \hE4, \h05, \h0B, \h57, \h15, \hDC, \h83, \hF4, \hA9,
                        \h21, \hD3, \h6C, \hE9, \hCE, \h47, \hD0, \hD1, \h3C,
                        \h5D, \h85, \hF2, \hB0, \hFF, \h83, \h18, \hD2, \h87,
                        \h7E, \hEC, \h2F, \h63, \hB9, \h31, \hBD, \h47, \h41,
                        \h7A, \h81, \hA5, \h38, \h32, \h7A, \hF9, \h27, \hDA, \h3E>>],
          [input |-> Messages[3],
           digest |-> <<\hDD, \hAF, \h35, \hA1, \h93, \h61, \h7A, \hBA, \hCC,
                        \h41, \h73, \h49, \hAE, \h20, \h41, \h31, \h12, \hE6,
                        \hFA, \h4E, \h89, \hA9, \h7E, \hA2, \h0A, \h9E, \hEE,
                        \hE6, \h4B, \h55, \hD3, \h9A, \h21, \h92, \h99, \h2A,
                        \h27, \h4F, \hC1, \hA8, \h36, \hBA, \h3C, \h23, \hA3,
                        \hFE, \hEB, \hBD, \h45, \h4D, \h44, \h23, \h64, \h3C,
                        \hE8, \h0E, \h2A, \h9A, \hC9, \h4F, \hA5, \h4C, \hA4, \h9F>>],
          [input |-> Messages[6],
           digest |-> <<\h20, \h4A, \h8F, \hC6, \hDD, \hA8, \h2F, \h0A, \h0C,
                        \hED, \h7B, \hEB, \h8E, \h08, \hA4, \h16, \h57, \hC1,
                        \h6E, \hF4, \h68, \hB2, \h28, \hA8, \h27, \h9B, \hE3,
                        \h31, \hA7, \h03, \hC3, \h35, \h96, \hFD, \h15, \hC1,
                        \h3B, \h1B, \h07, \hF9, \hAA, \h1D, \h3B, \hEA, \h57,
                        \h78, \h9C, \hA0, \h31, \hAD, \h85, \hC7, \hA7, \h1D,
                        \hD7, \h03, \h54, \hEC, \h63, \h12, \h38, \hCA, \h34, \h45>>],
          [input |-> Messages[9],
           digest |-> <<\h8E, \h95, \h9B, \h75, \hDA, \hE3, \h13, \hDA, \h8C,
                        \hF4, \hF7, \h28, \h14, \hFC, \h14, \h3F, \h8F, \h77,
                        \h79, \hC6, \hEB, \h9F, \h7F, \hA1, \h72, \h99, \hAE,
                        \hAD, \hB6, \h88, \h90, \h18, \h50, \h1D, \h28, \h9E,
                        \h49, \h00, \hF7, \hE4, \h33, \h1B, \h99, \hDE, \hC4,
                        \hB5, \h43, \h3A, \hC7, \hD3, \h29, \hEE, \hB6, \hDD,
                        \h26, \h54, \h5E, \h96, \hE5, \h5B, \h87, \h4B, \hE9, \h09>>]
        >>

\* the asserts of the main() that tests hasher class a
Vectors(a) ==
    CASE Class(a) = "MD4" -> md4_vectors
      [] Class(a) = "MD5" -> md5_vectors
      [] Class(a) = "RMD" -> rmd_vectors(a)
      [] Class(a) = "SHA1" -> sha1_vectors
      [] Class(a) = "SHA2" -> sha2_vectors(a)

\* the string literal of a message: the array ends with the terminator
Literal(bytes) == bytes \o <<0>>

\* md4(input), md5(input), rmd<state_bits>(input), sha1(input) and
\* sha2<state_bits, output_bits>(input) for a string:
\*     return MD4().update(static_cast<input_type&&>(input)...).digest();
md(a, input) == digest(a, update_text(a, New(a), input))

\* a self-test message is passed to a new object with update(const char*)
UpdateMessage ==
    /\ fed = <<>>
    /\ output = <<>>
    /\ \E v \in 1..Len(Vectors(alg)) :
           \E next \in {update_text(alg, Self, Literal(Vectors(alg)[v].input))} :
               /\ m_count' = next.m_count
               /\ m_block' = next.m_block
               /\ m_state' = next.m_state
               /\ fed' = next.fed
               /\ calls' = next.calls
    /\ output' = <<>>
    /\ hasher' = New(alg)
    /\ resumed' = (resumed \/ output # <<>>)
    /\ UNCHANGED <<alg, hmac, frame, run>>

\* a self-test message is hashed by the one-shot function of the class
MessageDigest ==
    /\ fed = <<>>
    /\ output = <<>>
    /\ \E v \in 1..Len(Vectors(alg)) :
           \E call \in {md(alg, Literal(Vectors(alg)[v].input))} :
               /\ m_count' = call.self.m_count
               /\ m_block' = call.self.m_block
               /\ m_state' = call.self.m_state
               /\ fed' = call.self.fed
               /\ calls' = call.self.calls
               /\ output' = call.result
               /\ hasher' = call.hasher
    /\ UNCHANGED <<alg, resumed, hmac, frame, run>>

NextVectors == UpdateMessage \/ MessageDigest \/ Digest

SpecVectors == Init /\ [][NextVectors]_vars

\* the digest the self-test of class a expects for the message `bytes`
Expected(a, bytes) ==
    {Vectors(a)[v].digest : v \in {w \in 1..Len(Vectors(a)) : Vectors(a)[w].input = bytes}}

IsHasher(a, h) ==
    /\ h.m_count \in Nat
    /\ Len(h.m_block) = sizeof_block_type(a)
    /\ Len(h.m_state) = state_size(a)
    /\ \A i \in 1..Len(h.m_state) : Len(h.m_state[i]) = sizeof_word_type(a)

\* blocks = (cursor + count) / sizeof(block_type), with cursor = m_count % sizeof(block_type)
Passes(a, h, count) == ((h.m_count % sizeof_block_type(a)) + count) \div sizeof_block_type(a)

\* the fill counts tried in every state: nothing, one byte, a whole block
Fills(a) == {0, 1, sizeof_block_type(a)}

\* C17: within the range of the byte counter, every update call and every digest
\* call returns a value: update(_, count) returns a well-formed hasher after
\* exactly floor((cursor + count) / B) compress invocations, cursor being
\* m_count mod B before the call; digest returns sizeof(output_type) bytes after
\* ceil((cursor + 1 + sizeof(size_type)) / B) invocations on its copy, one or two.
C17_TotalityAndCompressCount ==
    /\ [](/\ IsHasher(alg, Self)
          /\ \A count \in Fills(alg) :
                 \A next \in {update_fill(alg, Self, count, 128)} :
                     /\ IsHasher(alg, next)
                     /\ Len(next.calls) = Len(calls) + Passes(alg, Self, count))
    /\ [][/\ output' = <<>> =>
                 Len(calls') = Len(calls) + Passes(alg, Self, Len(Appended))
          /\ output' # <<>> =>
                 /\ Len(output') = sizeof_output_type(alg)
                 /\ IsHasher(alg, hasher')
                 /\ Len(hasher'.calls) - Len(calls) \in 1..2
                 /\ Len(hasher'.calls) - Len(calls)
                        = Passes(alg, Self, sizeof_size_type(alg) + sizeof_block_type(alg))]_vars

\* an update call that found B - L - 1 bytes buffered and was given B + L + 1 more
\* has run compress twice, and digest has then run it once more on its copy
C17_Witness ==
    /\ m_count = 2 * sizeof_block_type(alg)
    /\ Len(calls) = 2
    /\ output # <<>>
    /\ Len(hasher.calls) = 3

(***************************************************************************)
(* The size of the block buffer.                                           *)
(***************************************************************************)
\* the published block size of the class in bytes
BlockBytes(a) == IF a \in {"SHA2_512_224", "SHA2_512_256", "SHA2_512_384", "SHA2_512_512"}
                 THEN 128 ELSE 64

\* C18 as stated: m_block.size() is the capacity of the block buffer in bytes,
\* 64 for the classes with 32-bit words and 128 for SHA2<512,*>.
C18_SizeIsByteCapacity ==
    /\ block_size(alg) = Len(m_block)
    /\ block_size(alg) = BlockBytes(alg)

\* C18, amended: m_block.size() is the number of words of the block buffer, 16
\* for every class; the capacity in bytes, sizeof(block_type) = 16 *
\* sizeof(word_type), is 64 for the classes with 32-bit words and 128 for
\* SHA2<512,*>, and this is the block size of update and digest: compress has
\* run once for every 64 (128) bytes absorbed, each time on a whole buffer, the
\* bytes buffered are m_count mod 64 (128), and the padded message of digest is
\* a multiple of 64 (128) bytes long.
C18_SizeIsWordCount ==
    /\ block_size(alg) = 16
    /\ block_size(alg) * sizeof_word_type(alg) = BlockBytes(alg)
    /\ Len(m_block) = BlockBytes(alg)
    /\ Len(calls) = m_count \div BlockBytes(alg)
    /\ \A i \in 1..Len(calls) :
           calls[i] = SubSeq(fed, (i - 1) * BlockBytes(alg) + 1, i * BlockBytes(alg))
    /\ SubSeq(m_block, 1, m_count % BlockBytes(alg))
           = SubSeq(fed, Len(fed) - (m_count % BlockBytes(alg)) + 1, Len(fed))
    /\ output # <<>> =>
           /\ hasher.m_count % BlockBytes(alg) = 0
           /\ hasher.m_count - m_count \in
                  (sizeof_size_type(alg) + 1)..(sizeof_size_type(alg) + BlockBytes(alg))
           /\ Len(hasher.calls) = hasher.m_count \div BlockBytes(alg)

\* a SHA2<512,*> object has compressed one block of 128 bytes, holds 17 more in
\* its buffer, and digest has padded them to a second block
C18_Witness ==
    /\ BlockBytes(alg) = 128
    /\ m_count = 128 + 17
    /\ Len(calls) = 1
    /\ output # <<>>
    /\ hasher.m_count = 256

(***************************************************************************)
(* HMAC over a hasher class.  The inner hasher of an HMAC object is        *)
(* modelled by the hasher variables, the rest of the object by `hmac`.     *)
(* The tests x = x below only fix the order of evaluation: x is computed   *)
(* before the expression that uses it.                                     *)
(***************************************************************************)
\* block xor the repeated byte
XorBlock(block, byte) == Tuple([i \in 1..Len(block) |-> Xor8(block[i], byte)])

\* the digest of a whole message by a new hasher of class a
Hash(a, bytes) ==
    IF bytes = bytes THEN digest(a, update(a, New(a), bytes, Len(bytes))).result ELSE <<>>

\* key normalization: a key longer than a block is replaced by its digest; the
\* key is then padded with zero bytes to a whole block
Normalized(a, secret) ==
    IF Len(secret) > sizeof_block_type(a)
    THEN Hash(a, secret) \o Fill(sizeof_block_type(a) - sizeof_output_type(a), 0)
    ELSE secret \o Fill(sizeof_block_type(a) - Len(secret), 0)

\* the object made from a secret and its key block: the inner hasher has been
\* passed the key block xor 0x36
hmac_keyed(a, secret, key) ==
    IF key = key
    THEN [inner |-> update(a, New(a), XorBlock(key, \h36), sizeof_block_type(a)),
          m_key |-> key,
          secret |-> secret]
    ELSE [inner |-> New(a), m_key |-> key, secret |-> secret]

\* HMAC<H>(secret)
HMAC(a, secret) == hmac_keyed(a, secret, Normalized(a, secret))

\* HMAC<H>::update(input, count): the message goes to the inner hasher
hmac_update(a, mac, input, count) ==
    [mac EXCEPT !.inner = update(a, mac.inner, input, count)]

\* the outer pass: a new hasher is passed the key block xor 0x5C and the inner
\* digest; call is digest() of the inner hasher
hmac_outer(a, mac, call) ==
    IF call = call
    THEN [digest(a, update(a, update(a, New(a), XorBlock(mac.m_key, \h5C),
                                     sizeof_block_type(a)),
                           call.result, Len(call.result)))
             EXCEPT !.self = [mac EXCEPT !.inner = call.self]]
    ELSE call

\* HMAC<H>::digest()
hmac_digest(a, mac) == IF mac = mac THEN hmac_outer(a, mac, digest(a, mac.inner)) ELSE mac

\* hmac<H>(secret, message)
hmac_call(a, secret, message) ==
    hmac_digest(a, hmac_update(a, HMAC(a, secret), message, Len(message)))

\* the secrets tried: a short one ("secret"), one of exactly a block, and one of a
\* byte more than a block
Secrets(a) ==
    << <<115, 101, 99, 114, 101, 116>>,
       Fill(sizeof_block_type(a), 11),
       Fill(sizeof_block_type(a) + 1, \hAA) >>

\* the lengths of the pieces a message is passed in
Pieces(a) == {0, (sizeof_block_type(a) \div 2) + 1}

\* the HMAC object, as a record
Mac == [inner |-> Self, m_key |-> hmac.m_key, secret |-> hmac.secret]

\* the message passed to the HMAC object so far
Message == SubSeq(fed, sizeof_block_type(alg) + 1, Len(fed))

InitHMAC ==
    /\ alg \in Algs
    /\ \E s \in 1..Len(Secrets(alg)) :
           \E mac \in {HMAC(alg, Secrets(alg)[s])} :
               /\ m_count = mac.inner.m_count
               /\ m_block = mac.inner.m_block
               /\ m_state = mac.inner.m_state
               /\ fed = mac.inner.fed
               /\ calls = mac.inner.calls
               /\ hmac = [m_key |-> mac.m_key, secret |-> mac.secret]
    /\ output = <<>>
    /\ frame = [pc |-> 0, state |-> <<>>, round |-> <<>>]
    /\ run = Idle
    /\ hasher = New(alg)
    /\ resumed = FALSE

\* a call update(input, count) of the HMAC object with the next bytes of the stream
HmacUpdate ==
    \E count \in Pieces(alg) :
        /\ Len(Message) + count <= sizeof_block_type(alg) + 2
        /\ \E next \in {hmac_update(alg, Mac, Chunk(Len(Message), count), count)} :
               /\ m_count' = next.inner.m_count
               /\ m_block' = next.inner.m_block
               /\ m_state' = next.inner.m_state
               /\ fed' = next.inner.fed
               /\ calls' = next.inner.calls
               /\ hmac' = [m_key |-> next.m_key, secret |-> next.secret]
        /\ output' = <<>>
        /\ hasher' = New(alg)
        /\ resumed' = (resumed \/ output # <<>>)
        /\ UNCHANGED <<alg, frame, run>>

\* a call digest() of the HMAC object
HmacDigest ==
    \E call \in {hmac_digest(alg, Mac)} :
        /\ m_count' = call.self.inner.m_count
        /\ m_block' = call.self.inner.m_block
        /\ m_state' = call.self.inner.m_state
        /\ fed' = call.self.inner.fed
        /\ calls' = call.self.inner.calls
        /\ hmac' = [m_key |-> call.self.m_key, secret |-> call.self.secret]
        /\ output' = call.result
        /\ hasher' = call.hasher
        /\ UNCHANGED <<alg, resumed, frame, run>>

\* hmac<H>(secret, message) with the secret of the object and a whole message
HmacCall ==
    /\ Message = <<>>
    /\ output = <<>>
    /\ \E message \in {<<97, 98, 99>>, Chunk(0, sizeof_block_type(alg) + 2)} :
           \E call \in {hmac_call(alg, hmac.secret, message)} :
               /\ m_count' = call.self.inner.m_count
               /\ m_block' = call.self.inner.m_block
               /\ m_state' = call.self.inner.m_state
               /\ fed' = call.self.inner.fed
               /\ calls' = call.self.inner.calls
               /\ hmac' = [m_key |-> call.self.m_key, secret |-> call.self.secret]
               /\ output' = call.result
               /\ hasher' = call.hasher
    /\ UNCHANGED <<alg, resumed, frame, run>>

NextHMAC == HmacUpdate \/ HmacDigest \/ HmacCall

SpecHMAC == InitHMAC /\ [][NextHMAC]_vars

\* HMAC values computed by an independent implementation, as
\* <<index of the secret in Secrets(a), message, HMAC>>
hmac_reference(a) ==
    CASE a = "MD5" ->
          {
            <<1, <<>>,
              <<\h5C, \h8D, \hB0, \h3F, \h04, \hCE, \hC0, \hF4, \h3B, \hCB, \h06,
                \h00, \h23, \h91, \h41, \h90>>>>,
            <<1, <<97, 98, 99>>,
              <<\hD9, \hBF, \h7C, \h3A, \h63, \hEA, \hE7, \h03, \h1C, \h4E, \h6D,
                \h7C, \h9B, \h78, \hBA, \h93>>>>,
            <<1, Chunk(0, sizeof_block_type(a) \div 2 + 1),
              <<\h35, \h99, \hF6, \hB6, \h34, \h07, \h15, \h18, \h96, \h60, \h80,
                \h16, \h3F, \h9B, \hC8, \h71>>>>,
            <<1, Chunk(0, sizeof_block_type(a) + 2),
              <<\hF3, \h7C, \h56, \hF9, \hC5, \h43, \hC4, \h4B, \hD7, \h9D, \hAE,
                \h78, \hCD, \hB7, \hFD, \hD5>>>>,
            <<2, <<>>,
              <<\hF8, \hA9, \hF1, \h10, \h39, \h3C, \h27, \h66, \hF7, \h36, \hED,
                \hBA, \h6C, \hCB, \h0F, \h24>>>>,
            <<2, <<97, 98, 99>>,
              <<\h7D, \h8C, \hBF, \h21, \h01, \h03, \h91, \h74, \hAC, \h7F, \hCE,
                \h09, \h93, \h8E, \hE5, \h5F>>>>,
            <<2, Chunk(0, sizeof_block_type(a) \div 2 + 1),
              <<\hFB, \h12, \h7B, \hE7, \h20, \h52, \hCC, \h49, \hB7, \h72, \h1A,
                \hFE, \h7B, \hFD, \h4C, \h8C>>>>,
            <<2, Chunk(0, sizeof_block_type(a) + 2),
              <<\h5B, \hD3, \h5A, \h14, \hBB, \h88, \h46, \hC7, \hEF, \h6C, \hA8,
                \h6C, \hCF, \h68, \h03, \h71>>>>,
            <<3, <<>>,
              <<\hEB, \hFE, \h6F, \h44, \h42, \h7B, \h0D, \h04, \h81, \h6D, \h63,
                \h9D, \hCE, \h90, \h13, \h7B>>>>,
            <<3, <<97, 98, 99>>,
              <<\hF9, \h62, \hFB, \h84, \h54, \h6B, \h78, \h4C, \h85, \hCE, \h2F,
                \hD0, \hD0, \h05, \h51, \h4A>>>>,
            <<3, Chunk(0, sizeof_block_type(a) \div 2 + 1),
              <<\h60, \h9E, \h05, \hAF, \hDC, \hBF, \h7B, \hF2, \h89, \h4D, \h3A,
                \hB8, \hF0, \hAE, \h5B, \hF8>>>>,
            <<3, Chunk(0, sizeof_block_type(a) + 2),
              <<\h22, \h74, \h37, \h20, \hB7, \hB8, \hE7, \h68, \hA4, \h4C, \h94,
                \h84, \h6F, \h94, \hDF, \h84>>>>
          }
      [] a = "SHA1" ->
          {
            <<1, <<>>,
              <<\h25, \hAF, \h61, \h74, \hA0, \hFC, \hEC, \hC4, \hD3, \h46, \h68,
                \h0A, \h72, \hB7, \hCE, \h64, \h4B, \h9A, \h88, \hE8>>>>,
            <<1, <<97, 98, 99>>,
              <<\h69, \h4A, \hBD, \h10, \h84, \h2D, \h16, \h1D, \hDB, \hC5, \h4D,
                \hF8, \hA0, \hD5, \h7C, \hF6, \h4D, \h0D, \hBC, \hC9>>>>,
            <<1, Chunk(0, sizeof_block_type(a) \div 2 + 1),
              <<\h3F, \hA6, \hF0, \h43, \hF9, \h7C, \h85, \h6E, \h8D, \h66, \h26,
                \h79, \h29, \h91, \h32, \hFC, \h61, \hB6, \h4A, \h3F>>>>,
            <<1, Chunk(0, sizeof_block_type(a) + 2),
              <<\hD6, \h3B, \hD6, \hA2, \h9C, \h48, \hFE, \h32, \h39, \hF4, \h56,
                \h73, \h24, \hB5, \h58, \hC4, \h69, \h26, \h0A, \hC9>>>>,
            <<2, <<>>,
              <<\h5A, \hDC, \hBF, \hEA, \h3F, \h50, \hEF, \h62, \h18, \hE3, \hB6,
                \h51, \hF1, \hA7, \hF7, \hEB, \h42, \hE5, \h9F, \h13>>>>,
            <<2, <<97, 98, 99>>,
              <<\h0D, \h2E, \h44, \hD5, \h31, \h64, \h01, \h13, \h4C, \h7D, \h9C,
                \hD3, \hA0, \h5F, \hB0, \hA5, \h19, \hDE, \h14, \hF2>>>>,
            <<2, Chunk(0, sizeof_block_type(a) \div 2 + 1),
              <<\hF8, \h4D, \hD8, \hBC, \hDD, \h06, \h5A, \h6A, \h7A, \hA6, \h75,
                \h4A, \hE7, \hE8, \hB5, \hDE, \hE2, \hF8, \h41, \h6A>>>>,
            <<2, Chunk(0, sizeof_block_type(a) + 2),
              <<\h24, \h74, \hC0, \h6F, \hC8, \h5E, \hD4, \h4D, \h34, \h07, \hC7,
                \hD7, \hA8, \h55, \h61, \h26, \hBF, \h1A, \hF5, \hFC>>>>,
            <<3, <<>>,
              <<\h0B, \h82, \h03, \h05, \h6F, \hAF, \h39, \h5C, \h8F, \h8E, \h54,
                \h50, \h1D, \h56, \h68, \hBD, \h7A, \h91, \h09, \h51>>>>,
            <<3, <<97, 98, 99>>,
              <<\h10, \hF3, \hFC, \hD6, \hD8, \h72, \h0E, \h55, \h1B, \h63, \h9C,
                \hBC, \h84, \hF8, \h43, \h6A, \h17, \hD0, \h49, \h8C>>>>,
            <<3, Chunk(0, sizeof_block_type(a) \div 2 + 1),
              <<\h92, \h52, \h67, \h7A, \h9B, \hC2, \hE9, \hB8, \h88, \h35, \h0B,
                \h21, \hCC, \h49, \hB3, \h90, \h1F, \h4D, \h59, \hC0>>>>,
            <<3, Chunk(0, sizeof_block_type(a) + 2),
              <<\hFA, \hDF, \hA0, \hC4, \hE7, \h70, \h0F, \h15, \hBA, \h3E, \h79,
                \h9B, \h25, \h9D, \h5F, \hD3, \h44, \h89, \hFA, \h1B>>>>
          }
      [] a = "RMD160" ->
          {
            <<1, <<>>,
              <<\h12, \h56, \hEE, \hAD, \h4A, \h48, \hA3, \h24, \h92, \hFF, \h10,
                \h1C, \h79, \hAD, \hA7, \hAE, \h95, \hB2, \h4C, \h8F>>>>,
            <<1, <<97, 98, 99>>,
              <<\hA3, \h6C, \h21, \h11, \h34, \hCF, \hAA, \h21, \hB5, \h13, \hBE,
                \hB8, \h03, \hAE, \h4D, \hB8, \h17, \h17, \h39, \h8D>>>>,
            <<1, Chunk(0, sizeof_block_type(a) \div 2 + 1),
              <<\hD4, \h6A, \h25, \hE0, \hF9, \h2E, \h16, \h65, \h20, \h6C, \h10,
                \h09, \hD0, \h29, \h87, \h8E, \h1B, \h00, \hD2, \hF3>>>>,
            <<1, Chunk(0, sizeof_block_type(a) + 2),
              <<\hAF, \hB7, \h19, \hF0, \hB2, \hF5, \h32, \hFD, \h68, \h19, \hD9,
                \hC0, \hB7, \h0F, \hAC, \h1C, \h72, \hEA, \h3A, \h75>>>>,
            <<2, <<>>,
              <<\h8F, \h6D, \h01, \h39, \h21, \h9E, \h52, \h86, \h65, \h2B, \hF8,
                \h1E, \h08, \h28, \h87, \hA6, \hD1, \h78, \h2C, \h59>>>>,
            <<2, <<97, 98, 99>>,
              <<\h77, \h3A, \h4F, \hDC, \h34, \h89, \h11, \h5E, \h9B, \h34, \h10,
                \hB3, \h10, \h26, \h30, \h6F, \hA9, \h96, \h37, \h10>>>>,
            <<2, Chunk(0, sizeof_block_type(a) \div 2 + 1),
              <<\hE6, \h8F, \hF9, \h73, \hC0, \h3D, \h2A, \h3C, \h0E, \hCF, \h66,
                \h9F, \hC9, \h26, \h79, \h39, \hBF, \hB2, \hA4, \h1F>>>>,
            <<2, Chunk(0, sizeof_block_type(a) + 2),
              <<\h4D, \hD0, \h58, \hA3, \h15, \h8F, \hC6, \h86, \hE1, \h6B, \h99,
                \h96, \h33, \h86, \h2E, \hCC, \h42, \hE2, \h26, \hC5>>>>,
            <<3, <<>>,
              <<\h25, \h34, \hE8, \h13, \hF6, \h8E, \h4C, \h21, \h75, \hFB, \h1B,
                \hCD, \h06, \hEC, \hA2, \hE7, \h33, \h87, \h4C, \h63>>>>,
            <<3, <<97, 98, 99>>,
              <<\h77, \h56, \hAE, \hA2, \h5E, \h92, \h6D, \hE4, \h87, \h00, \h5E,
                \h8F, \h5F, \hE0, \hB6, \h84, \hFF, \hAD, \h90, \h5F>>>>,
            <<3, Chunk(0, sizeof_block_type(a) \div 2 + 1),
              <<\h7C, \h21, \h5B, \h06, \h50, \h50, \h3D, \hCD, \hE4, \h0A, \h9D,
                \hA0, \hBC, \h13, \hCD, \h40, \h6F, \h6F, \h12, \h1E>>>>,
            <<3, Chunk(0, sizeof_block_type(a) + 2),
              <<\h60, \hC5, \hB5, \h06, \hC7, \hF4, \hE2, \hBB, \h64, \h11, \h8C,
                \h08, \hC5, \hE6, \h29, \h36, \h72, \hE0, \hE3, \h56>>>>
          }
      [] a = "SHA2_256_224" ->
          {
            <<1, <<>>,
              <<\hB7, \h39, \h38, \h41, \h29, \hC4, \h9B, \hCC, \h2C, \hB2, \h94,
                \h32, \hCA, \hE9, \h9B, \h6A, \h37, \h10, \hE8, \hF0, \hC0, \h30,
                \hE0, \hB5, \h45, \hF8, \hAD, \h7C>>>>,
            <<1, <<97, 98, 99>>,
              <<\hD7, \h99, \h00, \h86, \h33, \h1D, \hB8, \hBE, \hCD, \hE4, \hFD,
                \h97, \h88, \h47, \h36, \h7E, \hEB, \h0B, \h96, \h7B, \h36, \h85,
                \hC8, \h82, \h9E, \h4A, \h02, \h1D>>>>,
            <<1, Chunk(0, sizeof_block_type(a) \div 2 + 1),
              <<\hCE, \h0B, \h60, \h5B, \h56, \h3F, \hFC, \h21, \h6E, \h1D, \hFA,
                \h68, \hCA, \h37, \h0E, \hA6, \h97, \hCB, \hDE, \hAE, \h83, \h49,
                \h9E, \hA8, \hAB, \hA6, \h43, \h2F>>>>,
            <<1, Chunk(0, sizeof_block_type(a) + 2),
              <<\h73, \hD9, \hEC, \h3D, \h51, \h02, \h1A, \hBA, \h59, \hA7, \h72,
                \h32, \h15, \h88, \h11, \h76, \h4F, \h73, \hB2, \hEA, \h82, \h37,
                \hCB, \hFA, \hC5, \hF6, \h47, \h12>>>>,
            <<2, <<>>,
              <<\hCE, \hAF, \h6C, \h67, \h7B, \hE0, \h70, \h43, \h98, \hDB, \h02,
                \h49, \h54, \h66, \h26, \hB9, \h95, \h1B, \hA8, \h0F, \hE3, \h6E,
                \hE9, \h4F, \hCF, \hE2, \h7D, \h22>>>>,
            <<2, <<97, 98, 99>>,
              <<\h57, \hFD, \hA2, \h1B, \hBB, \h18, \hC1, \h5A, \h4C, \hA2, \hA4,
                \h33, \hDE, \h64, \h3A, \h81, \h19, \h2A, \hFC, \hE4, \h8E, \hF9,
                \hA0, \h1E, \h4D, \h72, \hE5, \hB5>>>>,
            <<2, Chunk(0, sizeof_block_type(a) \div 2 + 1),
              <<\h0A, \hEB, \h5F, \h3B, \h84, \h92, \h5F, \hC0, \h4F, \h92, \h3F,
                \h25, \h97, \hAB, \h11, \h09, \hDD, \h3C, \h4D, \h45, \h43, \hA9,
                \hF3, \h06, \hCA, \hBC, \h4E, \h62>>>>,
            <<2, Chunk(0, sizeof_block_type(a) + 2),
              <<\hE5, \h0F, \h1D, \hA7, \h80, \hA1, \hAB, \hFD, \hE8, \hAF, \hBD,
                \hC6, \h89, \hC8, \h4E, \h25, \h9B, \hE7, \h58, \hFA, \hF7, \h7D,
                \hDC, \hF8, \h5E, \hB1, \hC0, \hB5>>>>,
            <<3, <<>>,
              <<\h31, \hE6, \hF7, \h55, \h00, \h71, \hB0, \h4C, \hCE, \h40, \h5B,
                \hDC, \hEF, \hA6, \hB6, \h13, \h02, \h7D, \hE5, \h73, \h6C, \hCE,
                \hC6, \h9D, \h53, \h3F, \h98, \h92>>>>,
            <<3, <<97, 98, 99>>,
              <<\hE8, \h10, \hC3, \h0C, \h52, \hE6, \hAF, \hDF, \hC8, \hF7, \h47,
                \h43, \h68, \hA1, \h90, \hCF, \h41, \hAA, \h93, \h32, \hA7, \h17,
                \hDE, \h8A, \hFD, \hA4, \hED, \hAB>>>>,
            <<3, Chunk(0, sizeof_block_type(a) \div 2 + 1),
              <<\hCC, \hB9, \hD9, \hDC, \h61, \h05, \h9E, \h7E, \h60, \hF4, \h89,
                \h31, \h91, \hFF, \h03, \h45, \h15, \hA8, \h33, \h61, \h4C, \hB7,
                \h50, \h15, \hE3, \h6A, \hEB, \h8B>>>>,
            <<3, Chunk(0, sizeof_block_type(a) + 2),
              <<\hE7, \h83, \hFC, \h1C, \hC9, \hFD, \h6D, \hDB, \h7E, \h50, \h55,
                \h84, \hF3, \hDC, \hF5, \h25, \h61, \h70, \h21, \h31, \h54, \h5D,
                \h84, \h46, \hC1, \h73, \hCF, \h1F>>>>
          }
      [] a = "SHA2_256_256" ->
          {
            <<1, <<>>,
              <<\hF9, \hE6, \h6E, \h17, \h9B, \h67, \h47, \hAE, \h54, \h10, \h8F,
                \h82, \hF8, \hAD, \hE8, \hB3, \hC2, \h5D, \h76, \hFD, \h30, \hAF,
                \hDE, \h6C, \h39, \h58, \h22, \hC5, \h30, \h19, \h61, \h69>>>>,
            <<1, <<97, 98, 99>>,
              <<\h99, \h46, \hDA, \hD4, \hE0, \h0E, \h91, \h3F, \hC8, \hBE, \h8E,
                \h5D, \h3F, \h7E, \h11, \h0A, \h4A, \h9E, \h83, \h2F, \h83, \hFB,
                \h09, \hC3, \h45, \h28, \h5D, \h78, \h63, \h8D, \h8A, \h0E>>>>,
            <<1, Chunk(0, sizeof_block_type(a) \div 2 + 1),
              <<\h4E, \h3F, \hBA, \h26, \h5D, \h7A, \hEC, \h15, \h22, \h3E, \h90,
                \hE5, \h77, \hC1, \h71, \hE2, \h9F, \h71, \hB6, \h21, \h20, \hCC,
                \h96, \hAA, \hED, \h45, \h5F, \h16, \h1B, \hE6, \h3C, \h69>>>>,
            <<1, Chunk(0, sizeof_block_type(a) + 2),
              <<\h44, \hB1, \h0A, \h7E, \hE6, \hA2, \h5B, \h7C, \h36, \h81, \h09,
                \hC3, \h20, \hBD, \h02, \h36, \hED, \h7D, \h3A, \hEB, \hF3, \hAF,
                \hDC, \hD6, \hFF, \hD0, \hD1, \h6D, \h57, \hFD, \h27, \hB2>>>>,
            <<2, <<>>,
              <<\h75, \hC2, \hE1, \h5A, \h41, \h52, \h7B, \hB3, \hA7, \h93, \hD8,
                \h64, \h73, \h4D, \h4E, \h49, \hCB, \h8D, \hC4, \h05, \hCD, \hF2,
                \hB2, \hFF, \h6A, \h44, \h16, \h9A, \hFA, \h1C, \h5D, \hEE>>>>,
            <<2, <<97, 98, 99>>,
              <<\hB3, \hE8, \hA5, \hF0, \h21, \h26, \hE8, \h68, \hD2, \h83, \hC5,
                \h33, \hC7, \h72, \hEE, \h04, \h89, \h0B, \h96, \hF1, \hD6, \hB6,
                \h83, \hC6, \hCD, \hD5, \h93, \h20, \h07, \h15, \hC2, \hCE>>>>,
            <<2, Chunk(0, sizeof_block_type(a) \div 2 + 1),
              <<\hC0, \h3E, \h1A, \h5F, \hD2, \hB0, \h36, \hAA, \hBA, \hE6, \h27,
                \h88, \h43, \hB5, \h2B, \h31, \h52, \h7C, \hE5, \h23, \h41, \h00,
                \h86, \h37, \h59, \h63, \h3C, \h5C, \h5E, \h91, \hCB, \hE1>>>>,
            <<2, Chunk(0, sizeof_block_type(a) + 2),
              <<\hE6, \h47, \hDB, \h2B, \h0B, \h73, \h68, \hF4, \h5A, \hC7, \h9F,
                \hFB, \hF9, \h5A, \hE3, \h77, \h0F, \h9F, \hFB, \h1D, \hC2, \hBC,
                \hA0, \h19, \h98, \hE5, \h77, \h56, \h30, \h69, \h81, \h53>>>>,
            <<3, <<>>,
              <<\h34, \h98, \h8E, \h6E, \h71, \hC5, \h5F, \hCC, \h3B, \hFF, \h1B,
                \h2C, \h36, \h71, \hB4, \hB7, \hB4, \h4E, \hCE, \h3F, \h7C, \h2D,
                \hD1, \h50, \h7E, \h0E, \h27, \h88, \hC4, \hA5, \h1C, \hF5>>>>,
            <<3, <<97, 98, 99>>,
              <<\h10, \h2E, \hBC, \h7C, \hEB, \h9D, \hFF, \h09, \hE5, \hA7, \h74,
                \h13, \hA3, \hCD, \h67, \h38, \h29, \h08, \hEC, \hE2, \h55, \h48,
                \h70, \h06, \hEB, \h0E, \h1E, \h1B, \h80, \h1F, \h9C, \hE6>>>>,
            <<3, Chunk(0, sizeof_block_type(a) \div 2 + 1),
              <<\h2A, \hEB, \h2D, \hF3, \hA8, \h33, \h66, \h3F, \h7D, \h36, \hAC,
                \h23, \hA3, \h09, \h73, \h27, \h1B, \hFB, \h43, \hF1, \hEC, \hAE,
                \h41, \h39, \hA3, \hAE, \h01, \h7F, \hF1, \hC3, \h64, \hA4>>>>,
            <<3, Chunk(0, sizeof_block_type(a) + 2),
              <<\h8A, \hB1, \h12, \h59, \hB4, \h00, \h96, \hF3, \hB0, \hF5, \h93,
                \hF1, \h07, \hEC, \h6C, \hB8, \hC6, \hBE, \h64, \h24, \h1B, \h77,
                \h1F, \hB7, \hE7, \h4D, \h1E, \h03, \h26, \h35, \h9D, \h50>>>>
          }
      [] a = "SHA2_512_224" ->
          {
            <<1, <<>>,
              <<\h9F, \h6A, \h43, \h32, \hF5, \h20, \h61, \h49, \h0F, \h21, \h19,
                \h60, \h9F, \h22, \hFC, \h6C, \hC1, \h09, \h25, \hD9, \hCF, \h17,
                \h4A, \h8F, \h53, \hAB, \h2F, \h81>>>>,
            <<1, <<97, 98, 99>>,
              <<\h67, \h2C, \hF4, \h73, \h29, \hED, \h0A, \h01, \hCD, \h9B, \h07,
                \h43, \h66, \h3D, \h49, \h71, \hF4, \h15, \hF6, \h4B, \h73, \h51,
                \hB3, \h9D, \h7E, \hC3, \h31, \hB4>>>>,
            <<1, Chunk(0, sizeof_block_type(a) \div 2 + 1),
              <<\hF9, \hB2, \h6B, \h3B, \hD3, \h7F, \h35, \h2D, \hF5, \hA4, \h1A,
                \h89, \h75, \h8B, \hBD, \hB1, \h1E, \h66, \h97, \h1A, \h0A, \h54,
                \h04, \hA6, \h2C, \h13, \hCF, \h47>>>>,
            <<1, Chunk(0, sizeof_block_type(a) + 2),
              <<\h49, \hB1, \hD3, \h03, \hFD, \h7D, \h4A, \hA9, \hAB, \hB7, \hDD,
                \hF7, \hCC, \h0C, \hFD, \h2D, \hCF, \h37, \h96, \h97, \h5E, \hEC,
                \h45, \h6B, \h85, \h58, \h06, \hED>>>>,
            <<2, <<>>,
              <<\hF7, \h62, \h57, \h72, \h60, \h01, \h21, \hBF, \h0C, \hCE, \h04,
                \h0D, \h8D, \hF1, \h0A, \h20, \h09, \h50, \h2E, \hC9, \hD2, \h70,
                \hD8, \hDE, \h63, \h9C, \h63, \hB8>>>>,
            <<2, <<97, 98, 99>>,
              <<\h0D, \hB0, \h41, \h89, \hBE, \hC6, \hCE, \hD7, \h28, \h1C, \h31,
                \h7E, \h9B, \h22, \h42, \hD3, \h64, \hC1, \h92, \h31, \hCD, \h20,
                \h31, \h76, \h66, \h36, \hFA, \h24>>>>,
            <<2, Chunk(0, sizeof_block_type(a) \div 2 + 1),
              <<\h32, \h7C, \h91, \h0E, \h3F, \h16, \hFA, \hD1, \h92, \h0A, \hC1,
                \hF0, \h7B, \h18, \h25, \h19, \hC0, \hC5, \hB8, \h51, \h4E, \h51,
                \hDE, \hFD, \h93, \h5B, \hDB, \hDB>>>>,
            <<2, Chunk(0, sizeof_block_type(a) + 2),
              <<\h0C, \h28, \h4F, \hA3, \h29, \h5C, \h89, \h86, \h44, \h44, \hB0,
                \hF5, \h90, \h5A, \h6D, \hA3, \hA2, \h81, \h90, \h85, \h38, \hD7,
                \h78, \h4C, \h04, \hB3, \hD5, \hED>>>>,
            <<3, <<>>,
              <<\h61, \h6B, \h02, \h9A, \h9D, \h7D, \h02, \hC2, \h61, \hD1, \h90,
                \h8F, \hAF, \h42, \h06, \hE1, \hB6, \hF0, \h1B, \h79, \h47, \hA1,
                \h12, \h18, \hFE, \h57, \hD4, \hC5>>>>,
            <<3, <<97, 98, 99>>,
              <<\hA5, \hA7, \h6A, \hC9, \h61, \h57, \hD4, \h8D, \h4E, \hC4, \h0C,
                \hEB, \hC4, \h1E, \h47, \h10, \h35, \h37, \h91, \h56, \hEA, \h18,
                \hAF, \hEE, \hC4, \hEB, \hA1, \h56>>>>,
            <<3, Chunk(0, sizeof_block_type(a) \div 2 + 1),
              <<\hC8, \hA4, \h2E, \h49, \hDD, \hB0, \h5E, \hAA, \h95, \hB9, \hCF,
                \hFE, \h42, \h7B, \h0A, \h3B, \hAA, \hC4, \h53, \hD5, \h65, \h15,
                \h0B, \h95, \hF8, \h6C, \hD4, \hFB>>>>,
            <<3, Chunk(0, sizeof_block_type(a) + 2),
              <<\h47, \h69, \hD1, \hB7, \h71, \hBF, \h5A, \hB4, \h6D, \hBE, \hDF,
                \h44, \h4C, \h9F, \hCC, \h57, \h15, \hE6, \h80, \hFB, \hD2, \hF5,
                \h79, \h59, \h2D, \h70, \hDC, \hB4>>>>
          }
      [] a = "SHA2_512_256" ->
          {
            <<1, <<>>,
              <<\h75, \h57, \hC6, \h3F, \hC5, \h5F, \h88, \h11, \h23, \hD0, \hD2,
                \h28, \hA3, \hAF, \h1D, \h78, \h6A, \h79, \h5C, \hFF, \hFB, \h20,
                \hC1, \hD8, \h82, \h68, \hFE, \hAF, \h7B, \h19, \hD9, \hA9>>>>,
            <<1, <<97, 98, 99>>,
              <<\h51, \h62, \h9E, \h45, \h3D, \h7A, \h07, \hA0, \h59, \h59, \hE5,
                \h17, \h4F, \hCC, \h1E, \h78, \h1E, \h50, \h91, \h79, \h69, \hB0,
                \h85, \h08, \h74, \hCF, \h29, \hBD, \hF1, \h3B, \hA4, \h76>>>>,
            <<1, Chunk(0, sizeof_block_type(a) \div 2 + 1),
              <<\hB6, \h6F, \h1E, \hD4, \h48, \h26, \h96, \h94, \h2B, \hA2, \h63,
                \hE3, \h01, \h44, \h8B, \hEF, \h92, \h27, \hC9, \h2A, \h14, \h13,
                \h60, \h92, \hC2, \hA4, \h60, \h78, \h72, \h07, \h2C, \h0B>>>>,
            <<1, Chunk(0, sizeof_block_type(a) + 2),
              <<\h3E, \h77, \h4C, \hFC, \hF2, \h19, \h52, \h77, \hAE, \h6C, \h06,
                \h15, \h71, \h04, \h2D, \h21, \h7B, \h14, \h93, \hAC, \hE0, \h89,
                \h02, \h29, \h4A, \h0D, \h8C, \hD8, \hC6, \h38, \h2B, \hC0>>>>,
            <<2, <<>>,
              <<\h9C, \hAF, \hA8, \hB4, \h05, \h14, \hF6, \h0B, \hC2, \h04, \h32,
                \h8F, \h41, \hAA, \hF5, \hC4, \h81, \h2E, \h5E, \h75, \h34, \h2E,
                \h98, \hA1, \h61, \hA6, \hDA, \h69, \h48, \hCE, \h89, \h8F>>>>,
            <<2, <<97, 98, 99>>,
              <<\hD4, \h0E, \h38, \hAA, \hBC, \h7E, \h9F, \h5A, \h52, \hBE, \h8F,
                \h1F, \h6C, \h19, \hA6, \h1F, \hDD, \hD3, \h5E, \hA9, \hE1, \h60,
                \h45, \hF7, \h2A, \h5E, \h93, \h17, \h46, \h9F, \h06, \h87>>>>,
            <<2, Chunk(0, sizeof_block_type(a) \div 2 + 1),
              <<\h79, \hB8, \h6E, \h40, \hFB, \hBF, \hA6, \h78, \hEF, \h3F, \hDE,
                \h15, \hB4, \hA0, \h32, \hF6, \hAE, \hFF, \h66, \hBC, \hF5, \hB7,
                \h8B, \hE1, \hE0, \h21, \hC4, \hE9, \h6C, \h8D, \hB6, \hF0>>>>,
            <<2, Chunk(0, sizeof_block_type(a) + 2),
              <<\hF0, \hBA, \hAF, \hC7, \h62, \h14, \hD3, \hD7, \hE8, \hB6, \h32,
                \h67, \h68, \h60, \h42, \hB5, \h02, \h13, \h86, \h78, \hC1, \h3D,
                \h82, \h4D, \h1C, \h0C, \h0E, \h37, \h13, \h7E, \h1C, \h7D>>>>,
            <<3, <<>>,
              <<\h9C, \h1C, \h8C, \h07, \h9E, \hE5, \h60, \hFC, \hC8, \h2B, \hB9,
                \hBE, \h86, \hE4, \hD3, \h6E, \hEA, \hFD, \h39, \h2F, \h11, \h53,
                \h1F, \hD1, \h55, \hE4, \h32, \hDE, \hE3, \h64, \h3A, \h2B>>>>,
            <<3, <<97, 98, 99>>,
              <<\h0C, \h80, \h37, \h32, \h34, \h57, \h61, \h01, \hEC, \hFF, \h73,
                \h6E, \hBA, \h71, \hEF, \hA4, \hE0, \h89, \h97, \h69, \h8A, \hE0,
                \h9A, \h73, \h66, \h87, \hED, \h17, \h2B, \h78, \hA7, \hE6>>>>,
            <<3, Chunk(0, sizeof_block_type(a) \div 2 + 1),
              <<\h3A, \hEB, \hF3, \hE6, \h3E, \h64, \hC7, \h5F, \hC9, \h6C, \h16,
                \h35, \h15, \hD6, \h71, \h78, \hFF, \hB1, \hDB, \hA1, \h7B, \h64,
                \h90, \hAA, \hB8, \hF3, \hE0, \hAA, \h7C, \hB9, \h1E, \hE7>>>>,
            <<3, Chunk(0, sizeof_block_type(a) + 2),
              <<\h60, \h4F, \h8E, \h8A, \hA0, \hB1, \hE1, \hE3, \hCA, \h5B, \h2C,
                \h03, \hC5, \h14, \h9D, \h00, \hB6, \h7C, \h15, \h49, \hA2, \h41,
                \hE8, \hAE, \hB8, \hAF, \h95, \hEF, \h99, \hB4, \h71, \hD0>>>>
          }
      [] a = "SHA2_512_384" ->
          {
            <<1, <<>>,
              <<\hB8, \h18, \hF4, \h66, \h4D, \h08, \h26, \hB1, \h02, \hB7, \h2C,
                \hF2, \hA6, \h87, \hF5, \h58, \h36, \h8F, \h21, \h52, \hB1, \h5B,
                \h83, \hA7, \hF3, \h89, \hE4, \h8C, \h33, \h5F, \hC4, \h55, \h28,
                \h2C, \h61, \hE9, \h73, \h35, \hDA, \hE3, \h70, \hBA, \hC3, \h1A,
                \h81, \h96, \h77, \h2D>>>>,
            <<1, <<97, 98, 99>>,
              <<\h69, \h90, \hE7, \h33, \hFC, \h90, \hA0, \h53, \h49, \h9F, \h07,
                \hEA, \hAC, \h2D, \h08, \h2B, \h92, \h18, \h86, \h22, \h26, \hD3,
                \hFF, \h8F, \h1A, \h72, \hDF, \h2B, \h9E, \h5A, \hBD, \hDA, \hAD,
                \h80, \hC4, \hA2, \hFE, \h2A, \hD5, \hB3, \hE5, \h6C, \hAB, \h3C,
                \h5D, \h7A, \hDE, \hC1>>>>,
            <<1, Chunk(0, sizeof_block_type(a) \div 2 + 1),
              <<\h09, \h24, \h51, \hC1, \h63, \h6B, \h2E, \h52, \h64, \h14, \hCE,
                \h48, \h10, \hDB, \hD0, \h44, \hE0, \h10, \h2C, \hA7, \hF7, \h1D,
                \h8E, \hD8, \hE7, \h21, \h0D, \h87, \hB1, \hAF, \h50, \h7D, \h87,
                \h18, \h61, \hD4, \h8E, \hDB, \hE4, \h18, \hF7, \h2F, \h79, \h0A,
                \hFE, \h36, \hB0, \hC6>>>>,
            <<1, Chunk(0, sizeof_block_type(a) + 2),
              <<\h2C, \hE6, \hA4, \hC5, \h81, \h3B, \h1A, \h32, \hB6, \h49, \h03,
                \hBB, \hA8, \h30, \h3E, \h94, \hA3, \h09, \h29, \h7B, \h84, \hE9,
                \hE1, \h3D, \hC8, \hC8, \h4F, \h86, \h01, \h42, \h5D, \h4F, \h29,
                \h8A, \hB8, \h8B, \hB0, \h3F, \hC2, \h2D, \h40, \h63, \h9D, \hD8,
                \h91, \hD7, \h6E, \h7C>>>>,
            <<2, <<>>,
              <<\h85, \h4C, \h1A, \h71, \hEF, \hB1, \h12, \h78, \h96, \hE0, \h30,
                \hD2, \h0D, \h99, \hDE, \h1B, \h91, \h99, \hFD, \h63, \h29, \h28,
                \h02, \h70, \hA6, \h2B, \h6D, \h68, \h04, \h2C, \h0C, \h74, \hFB,
                \h5F, \h18, \h0C, \h47, \hE8, \h82, \h80, \hF4, \h3D, \hFF, \hBE,
                \h5C, \h4E, \hF1, \hA2>>>>,
            <<2, <<97, 98, 99>>,
              <<\h19, \hFE, \h43, \hF9, \hB7, \h0C, \h3E, \h96, \h83, \h27, \h62,
                \hCF, \h90, \hB6, \hE6, \hA6, \h63, \hC1, \h12, \hEC, \hA2, \h8B,
                \h76, \hAF, \hA5, \hD8, \hCE, \h53, \h7A, \h98, \hDF, \h38, \h45,
                \h0E, \hEC, \h32, \hE0, \hB2, \hEC, \hC4, \h9B, \h02, \hB4, \h11,
                \h3E, \h98, \h02, \h27>>>>,
            <<2, Chunk(0, sizeof_block_type(a) \div 2 + 1),
              <<\hD4, \h12, \hF7, \hE7, \hFB, \h85, \h24, \hAE, \hF1, \h29, \hDF,
                \h04, \hFC, \hCF, \h49, \hD7, \hB9, \hD8, \h36, \hDB, \hC5, \h8D,
                \h0C, \h37, \h1C, \hC0, \hA0, \h9F, \h1D, \hCE, \h0E, \h11, \h19,
                \h70, \hC2, \hAA, \h58, \hD0, \h5C, \h3B, \h0D, \h94, \hA2, \h19,
                \h94, \hB9, \h91, \h43>>>>,
            <<2, Chunk(0, sizeof_block_type(a) + 2),
              <<\hC9, \hAE, \h14, \hC9, \hD7, \h01, \hAD, \h85, \h34, \h72, \h67,
                \hF1, \hA9, \h2C, \h88, \h0A, \h63, \h39, \hB0, \h45, \h3D, \h05,
                \h81, \h8F, \h68, \h49, \hF0, \h6F, \h92, \h2D, \hD7, \h02, \h2D,
                \hD5, \hB0, \h2A, \h70, \hDF, \hDD, \hCF, \hF0, \hA0, \h43, \h29,
                \h26, \hE5, \h6A, \hAF>>>>,
            <<3, <<>>,
              <<\hA0, \hCF, \h65, \h26, \h2A, \h5F, \h93, \hE8, \h6D, \hB2, \h52,
                \h35, \hED, \hC8, \h3C, \h1C, \hD1, \hAC, \h49, \hA5, \hC7, \h8C,
                \hAB, \h96, \h68, \hAB, \h47, \h36, \h09, \hF3, \hC1, \h81, \hF7,
                \h12, \h80, \h1F, \hA5, \h6E, \h08, \h96, \h90, \h5E, \h6D, \h9E,
                \h64, \h3F, \h6C, \hD6>>>>,
            <<3, <<97, 98, 99>>,
              <<\h1C, \hD0, \h3E, \h84, \h20, \h4A, \h37, \hF4, \h98, \hF9, \h49,
                \hA0, \hA5, \hA1, \hD3, \h60, \h15, \hC6, \hF6, \h68, \h57, \h34,
                \h00, \h3E, \hA2, \h38, \hD9, \h8C, \h22, \h3D, \h56, \h6C, \h3B,
                \h84, \h9D, \hA8, \hF8, \h2F, \hF8, \h08, \hAF, \hB3, \h10, \hCD,
                \hF8, \hDE, \h83, \h86>>>>,
            <<3, Chunk(0, sizeof_block_type(a) \div 2 + 1),
              <<\hBF, \hB4, \h6A, \h1A, \hE9, \hD2, \h16, \h85, \hEF, \h4D, \hA5,
                \hE0, \hFF, \h8E, \h52, \hB7, \h78, \h52, \hCD, \h65, \h57, \h4B,
                \hA6, \h3A, \h5F, \h45, \h58, \h86, \hC9, \hD3, \hBA, \h32, \hA2,
                \h3C, \hEE, \h49, \h3C, \h15, \h28, \hC7, \h6A, \h51, \hB0, \h9E,
                \h34, \h3C, \h10, \h4F>>>>,
            <<3, Chunk(0, sizeof_block_type(a) + 2),
              <<\h66, \h73, \hAF, \h44, \hD3, \h85, \hD6, \h63, \h4C, \hE0, \h7A,
                \hF7, \h15, \hF4, \hD3, \h4D, \hD2, \hA5, \hCD, \h66, \h6E, \h30,
                \h0D, \hC1, \h11, \hC1, \h3C, \hAC, \h05, \hBC, \h9C, \h94, \h57,
                \hDC, \hAC, \h6D, \h58, \h3E, \hE5, \h97, \h4D, \hE4, \hAA, \h43,
                \hD3, \hE3, \h1C, \hCE>>>>
          }
      [] a = "SHA2_512_512" ->
          {
            <<1, <<>>,
              <<\hB0, \hE9, \h65, \h0C, \h5F, \hAF, \h9C, \hD8, \hAE, \h02, \h27,
                \h66, \h71, \h54, \h54, \h24, \h10, \h45, \h89, \hB3, \h65, \h67,
                \h31, \hEC, \h19, \h3B, \h25, \hD0, \h1B, \h07, \h56, \h1C, \h27,
                \h63, \h7C, \h2D, \h4D, \h68, \h38, \h9D, \h6C, \hF5, \h00, \h7A,
                \h86, \h32, \hC2, \h6E, \hC8, \h9B, \hA8, \h0A, \h01, \hC7, \h7A,
                \h6C, \hDD, \h38, \h9E, \hC2, \h8D, \hB4, \h39, \h01>>>>,
            <<1, <<97, 98, 99>>,
              <<\h18, \hC4, \hD2, \hED, \hB7, \hDC, \h01, \h2D, \h4A, \hDE, \h38,
                \h7E, \h58, \h7A, \hB7, \hC5, \h2F, \h50, \hA3, \h84, \h52, \h9F,
                \h3E, \h36, \h83, \h92, \hA1, \hB0, \hB1, \h61, \h83, \hF4, \h0A,
                \h62, \hFE, \h81, \h4C, \hBA, \h2A, \h04, \h9D, \h9B, \h0E, \h72,
                \hB7, \hAA, \hC9, \h32, \h00, \h6A, \h2F, \h6D, \h77, \hFA, \h7B,
                \h76, \hAE, \hDE, \h1B, \hD6, \h3D, \h88, \h82, \h41>>>>,
            <<1, Chunk(0, sizeof_block_type(a) \div 2 + 1),
              <<\h8C, \h26, \hDC, \hAD, \h7D, \h8C, \hB3, \h00, \hAD, \h0B, \h4A,
                \h82, \h83, \hD3, \hB0, \h90, \hA4, \h08, \hB9, \hEC, \hDF, \h8A,
                \h09, \h7B, \hC2, \hB8, \h73, \hA7, \h9F, \hBA, \hCB, \h0D, \hCE,
                \h72, \h39, \h3F, \hF5, \hBE, \h70, \h1A, \h49, \h94, \h74, \hFE,
                \hC5, \hAF, \hD1, \hC6, \h23, \hA1, \hA0, \h24, \hDA, \h6E, \h14,
                \h67, \h2C, \hE8, \hBF, \h88, \hDE, \h44, \h0B, \h34>>>>,
            <<1, Chunk(0, sizeof_block_type(a) + 2),
              <<\hED, \h2F, \h19, \hD9, \hF6, \hF4, \h64, \hA0, \h26, \h8E, \h55,
                \h1B, \h26, \hFC, \h12, \h9E, \h41, \h03, \hE7, \h44, \hE1, \h1B,
                \h05, \h00, \h09, \hCA, \h24, \h2A, \h4D, \h0A, \h8C, \h06, \h53,
                \h97, \h09, \h9A, \hD2, \hE9, \hFA, \hAF, \h25, \h14, \h39, \h7E,
                \h82, \h9E, \h3F, \hAD, \h59, \h85, \hAF, \h25, \hF3, \h16, \hA3,
                \h26, \hD5, \h28, \hF6, \hE4, \h4C, \hB5, \h27, \hD4>>>>,
            <<2, <<>>,
              <<\hF9, \hCB, \hE4, \h02, \h02, \h2D, \h41, \hBF, \hF1, \h72, \hA1,
                \h2E, \h9B, \hED, \h03, \h40, \h8E, \h04, \h5D, \h82, \hC3, \h94,
                \hEC, \h44, \hC6, \h0B, \hB8, \hAB, \hFF, \h6C, \h61, \h92, \h96,
                \h26, \hEE, \h67, \hC9, \h8C, \h4B, \hBF, \h50, \hFC, \hB8, \hAC,
                \h5D, \h01, \h6F, \h08, \h4E, \h2B, \h27, \h1D, \hCF, \hEF, \hA6,
                \h30, \hF4, \hF4, \hFC, \hED, \h93, \hAC, \hBA, \h13>>>>,
            <<2, <<97, 98, 99>>,
              <<\hA5, \hF9, \hBE, \h01, \h95, \h32, \hE9, \h41, \hCE, \hA6, \hAD,
                \hF5, \hA7, \h31, \hC2, \h04, \hD5, \h76, \hB0, \h40, \hBB, \h3E,
                \h5C, \hD6, \h1B, \h65, \h91, \h00, \hB5, \hEC, \hD1, \hEC, \hA8,
                \hB0, \hF8, \h0C, \h68, \hBD, \h44, \hCB, \hF8, \hB7, \h3E, \h60,
                \h69, \h18, \hC5, \hEE, \h08, \h07, \h38, \hD9, \hDB, \hC2, \h4C,
                \h1C, \hAB, \h68, \h90, \h84, \h09, \h69, \h21, \hE8>>>>,
            <<2, Chunk(0, sizeof_block_type(a) \div 2 + 1),
              <<\hDC, \h92, \hA5, \h70, \h63, \h69, \h31, \h89, \h96, \h93, \hF7,
                \h27, \h51, \hD0, \hDB, \hD7, \h22, \h67, \h47, \hD6, \hEE, \hE2,
                \h2E, \h4F, \hC4, \h8F, \hE4, \hAE, \hE6, \hB1, \h5F, \h71, \hA2,
                \h0F, \h07, \hF8, \h6E, \hE4, \hA4, \h18, \h05, \h05, \h58, \hDA,
                \hE7, \h07, \h8A, \hB8, \h0E, \hE5, \hCB, \h43, \h9B, \h04, \hDC,
                \h70, \hBB, \hF7, \hD2, \hB8, \h88, \h56, \h39, \h94>>>>,
            <<2, Chunk(0, sizeof_block_type(a) + 2),
              <<\hA2, \h17, \h08, \h92, \hFC, \h74, \hB1, \h84, \h10, \hA0, \h4C,
                \h4F, \h24, \h74, \hFC, \h05, \h4B, \h99, \h63, \h30, \h43, \h11,
                \h01, \h80, \hC4, \h61, \hBD, \h25, \hB7, \hB2, \h05, \h34, \hB4,
                \hB7, \hDB, \h09, \h32, \h93, \h0C, \hA6, \h2D, \h07, \h3E, \hCF,
                \h44, \h11, \h9B, \h74, \hDC, \h8A, \hAB, \h38, \hEB, \h94, \hE5,
                \hC9, \hA0, \hA2, \hF4, \h93, \h0C, \hBB, \h9E, \hD5>>>>,
            <<3, <<>>,
              <<\hEC, \hD9, \h03, \h80, \h0A, \hB8, \hEF, \hC0, \h5F, \hA1, \hE7,
                \hE2, \h2E, \h2C, \h79, \h80, \h83, \h20, \h42, \h0F, \h4F, \h0B,
                \h0A, \h2F, \h2A, \h12, \hD0, \hBF, \h8B, \h87, \h47, \h05, \h36,
                \h75, \h62, \h76, \h30, \h01, \h71, \hB2, \h6E, \hB2, \h39, \hB3,
                \h9D, \hB8, \h98, \hB4, \h83, \h2A, \h5A, \hC7, \h5F, \h0F, \h2B,
                \h0E, \hFF, \h8A, \hE9, \h8F, \h1D, \hFF, \h9E, \h2E>>>>,
            <<3, <<97, 98, 99>>,
              <<\h91, \hDA, \h74, \hBE, \h2B, \h02, \hE8, \hD4, \h0C, \h63, \h43,
                \h1A, \h2A, \hDA, \h5C, \h23, \h6D, \h8B, \h9A, \hFC, \h19, \hBF,
                \hB7, \h82, \h3E, \h23, \h61, \hDD, \h12, \hEC, \hF4, \h52, \hFC,
                \hA3, \hA6, \h98, \h3C, \hBB, \h53, \h06, \h7A, \hFD, \h75, \hFB,
                \h31, \hD0, \h75, \h75, \h59, \h90, \h91, \h3F, \h8A, \h08, \hEE,
                \h30, \h7F, \hC7, \h13, \hF1, \h42, \h49, \h8B, \hF8>>>>,
            <<3, Chunk(0, sizeof_block_type(a) \div 2 + 1),
              <<\h89, \h68, \h03, \h00, \h76, \h49, \h43, \h04, \hCC, \hA0, \h2A,
                \h35, \hDE, \hBC, \h91, \h4C, \hB1, \hCF, \hF4, \h87, \h2D, \hAD,
                \h13, \hF2, \h83, \h92, \h6D, \h40, \h34, \hC1, \h19, \hA6, \h67,
                \h81, \h0B, \h3F, \hC9, \h7B, \hB4, \h63, \hB2, \h0B, \hB8, \h5A,
                \h91, \h73, \h11, \hAE, \h8D, \hAE, \h54, \h11, \hCD, \hE1, \h1C,
                \h7B, \hB0, \h00, \hCE, \h78, \h5D, \hDA, \h1F, \h45>>>>,
            <<3, Chunk(0, sizeof_block_type(a) + 2),
              <<\h55, \hD7, \h20, \hBE, \h8F, \h1A, \h52, \hE4, \h9C, \hDC, \hB3,
                \hD9, \h7A, \h03, \h77, \hB8, \h8A, \h50, \hBB, \h58, \h29, \hC8,
                \hF8, \hDA, \hC6, \h92, \h88, \h4A, \h41, \h89, \hE6, \h56, \hF4,
                \h7A, \hBE, \hEC, \h9E, \h93, \h99, \h02, \h3D, \h2A, \h9D, \hFB,
                \hDE, \h48, \hA4, \hFC, \hE2, \hE9, \h4C, \h38, \hE1, \h59, \h16,
                \h5F, \hBD, \hA3, \h16, \hC8, \h22, \h1E, \h63, \hC4>>>>
          }
      [] OTHER -> {}

\* C19: the value digest() of an HMAC object returns, after any sequence of
\* update calls that passed the message M, and the value hmac<H>(secret, M)
\* returns, is H((K' xor 0x5C^B) || H((K' xor 0x36^B) || M)), with K' = H(K) for
\* a key longer than B bytes and K otherwise, padded with zero bytes to B bytes;
\* it is the value an independent implementation of HMAC computes; update
\* passes M to the inner hasher and changes nothing else; digest changes nothing
\* of the object (a step that returns a value after a change of the inner
\* hasher is a call of hmac<H>(secret, M) and has passed M to it).
C19_HMACConstruction ==
    /\ [](\A key \in {Normalized(alg, hmac.secret)} :
              /\ hmac.m_key = key
              /\ Len(key) = sizeof_block_type(alg)
              /\ SubSeq(fed, 1, sizeof_block_type(alg)) = XorBlock(key, \h36)
              /\ output # <<>> =>
                     /\ \A inner \in {Hash(alg, XorBlock(key, \h36) \o Message)} :
                            output = Hash(alg, XorBlock(key, \h5C) \o inner)
                     /\ \A v \in hmac_reference(alg) :
                            (hmac.secret = Secrets(alg)[v[1]] /\ Message = v[2])
                                => output = v[3])
    /\ [][/\ hmac' = hmac
          /\ Len(fed') >= Len(fed)
          /\ SubSeq(fed', 1, Len(fed)) = fed
          /\ output' = <<>> =>
                 /\ Appended = Chunk(Len(Message), Len(Appended))
                 /\ Self' = update(alg, Self, Appended, Len(Appended))
          /\ (output' # <<>> /\ ~(Message = <<>> /\ output = <<>>)) => Self' = Self
          /\ (output' # <<>> /\ Message = <<>> /\ output = <<>>) =>
                 /\ Appended \in {<<>>, <<97, 98, 99>>, Chunk(0, sizeof_block_type(alg) + 2)}
                 /\ Self' = update(alg, Self, Appended, Len(Appended))]_vars

\* HMAC<SHA2<256>>("secret") was passed the B + 2 bytes of its message in two
\* calls, after a call of digest() in between, and digest() has returned again
C19_Witness ==
    /\ alg = "SHA2_256_256"
    /\ Len(hmac.secret) = 6
    /\ Len(Message) = sizeof_block_type(alg) + 2
    /\ resumed
    /\ output # <<>>

(***************************************************************************)
(* The closing statements of compress().                                   *)
(***************************************************************************)
\* m_state when the last compress() call was entered
Before == Chained(alg, SubSeq(calls, 1, Len(calls) - 1))

\* the local arrays of the last compress() call after its last round
Working(chain) ==
    IF Class(alg) \in {"SHA1", "SHA2"}
    THEN sha_rounds(alg, chain, schedule(alg, calls[Len(calls)]))
    ELSE rounds(alg, chain, calls[Len(calls)])

\* C20 as stated: after every compress() call of every class, chaining word i
\* is the old chaining word i plus working word i modulo 2^wordbits (for the
\* two lines of RMD<128> and RMD<160>: plus word i of either line, or of both).
C20_WordwiseFeedForward ==
    Len(calls) > 0 =>
        \A old \in {Before} : \A state \in {Working(old)} :
            \A i \in 1..Len(m_state) :
                m_state[i] \in
                    {WrappedSum(old[i], state[i]),
                     WrappedSum(old[i], state[Len(state) - Len(old) + i]),
                     WrappedSum(WrappedSum(old[i], state[i]),
                                state[Len(state) - Len(old) + i])}

\* C20, amended: after every compress() call of MD4, MD5, RMD<256>, RMD<320>,
\* SHA1 and SHA2, chaining word i is (old chaining word i + working word i)
\* mod 2^wordbits for every i; after every compress() call of RMD<128> and
\* RMD<160>, with n words, chaining word i is (old word (i + 1) mod n + word
\* (i + 2) mod n of line 1 + word (i + 3) mod n of line 2) mod 2^32.  Every
\* addition wraps.
C20_FeedForward ==
    Len(calls) > 0 =>
        \A old \in {Before} : \A state \in {Working(old)} :
            \A i \in 0..(Len(m_state) - 1) :
                m_state[i + 1] =
                    IF alg \in {"RMD128", "RMD160"}
                    THEN WrappedSum(
                             WrappedSum(old[((i + 1) % Len(old)) + 1],
                                        state[((i + 2) % Len(old)) + 1]),
                             state[Len(old) + ((i + 3) % Len(old)) + 1])
                    ELSE WrappedSum(old[i + 1], state[i + 1])

\* the first compress() call of a SHA2<512> object was made with a zero carry
\* out of one chaining word and a carry out of another
C20_Witness ==
    /\ alg = "SHA2_512_512"
    /\ Len(calls) = 1
    /\ \A state \in {Working(InitialState(alg))} :
           /\ \E i \in 1..Len(m_state) : Overflows(InitialState(alg)[i], state[i])
           /\ \E i \in 1..Len(m_state) : ~Overflows(InitialState(alg)[i], state[i])

(***************************************************************************)
(* The two lines of RMD.                                                   *)
(***************************************************************************)
\* the array `name` (hash1 or hash2) after the statements of compress() that
\* name it, executed on their own from the chaining state
LineAlone(a, chain, block, name) ==
    Iterate(LAMBDA hash, i : IF steps(a)[i][1] = name
                             THEN line(a, hash, block, steps(a)[i])
                             ELSE hash,
            chain, 1, Len(steps(a)))

\* C21: after every compress() call of RMD<128> and RMD<160> (n = 4, 5), the
\* arrays hash1 and hash2 are what the statements of each line produce on their
\* own from the old chaining state, and chaining word i is (old word (i + 1) mod
\* n + hash1 word (i + 2) mod n + hash2 word (i + 3) mod n) mod 2^32 for every
\* i, every sum being taken on the old chaining words.
C21_IndependentLinesAndMerge ==
    (alg \in {"RMD128", "RMD160"} /\ Len(calls) > 0) =>
        \A old \in {Before} : \A state \in {Working(old)} :
            \A hash1 \in {LineAlone(alg, old, calls[Len(calls)], "hash1")} :
                \A hash2 \in {LineAlone(alg, old, calls[Len(calls)], "hash2")} :
                    /\ Len(old) = state_bits(alg) \div 32
                    /\ state = hash1 \o hash2
                    /\ \A i \in 0..(Len(old) - 1) :
                           m_state[i + 1] =
                               WrappedSum(WrappedSum(old[((i + 1) % Len(old)) + 1],
                                                     hash1[((i + 2) % Len(old)) + 1]),
                                          hash2[((i + 3) % Len(old)) + 1])

\* an RMD<160> object has compressed two blocks: the second merge read a
\* chaining state that the first had written
C21_Witness ==
    /\ alg = "RMD160"
    /\ Len(calls) = 2
    /\ m_state # InitialState(alg)
    /\ output = <<>>

(***************************************************************************)
(* compress() followed statement by statement: update is given whole       *)
(* blocks, and each compress call it makes is entered, runs its round      *)
(* statements (MD4, MD5, RMD) or the iterations of its round loops (SHA1,  *)
(* SHA2) one at a time on the local arrays, and returns through the        *)
(* closing additions.                                                      *)
(***************************************************************************)
StepClasses == {"MD4", "MD5", "RMD128", "RMD160", "RMD256", "RMD320"}

\* the number of round statements compress() executes
statements(a) == IF a \in StepClasses THEN Len(steps(a)) ELSE round_size(a)

\* update(input, sizeof(block_type)) on an empty buffer, up to the first round
\* statement of compress(m_block): the block is stored, the local arrays are
\* initialised (SHA1, SHA2: the array `round` is filled)
Enter ==
    /\ frame.pc = 0
    /\ m_count < MaxBlocks * sizeof_block_type(alg)
    /\ m_block' = Chunk(m_count, sizeof_block_type(alg))
    /\ frame' = [pc |-> 1, state |-> locals(alg, m_state),
                 round |-> IF alg \in StepClasses THEN <<>> ELSE schedule(alg, m_block')]
    /\ UNCHANGED <<alg, m_count, m_state, fed, calls, output, hasher, resumed, hmac, run>>

\* the next round statement of compress()
Statement ==
    /\ frame.pc > 0
    /\ frame.pc <= statements(alg)
    /\ frame' = [frame EXCEPT
                     !.pc = frame.pc + 1,
                     !.state = IF alg \in StepClasses
                               THEN statement(alg, frame.state, m_block, steps(alg)[frame.pc])
                               ELSE sha_round(alg, frame.state, frame.round, frame.pc)]
    /\ UNCHANGED <<alg, m_count, m_block, m_state, fed, calls, output, hasher, resumed,
                   hmac, run>>

\* the closing statements of compress() and the return of update
Leave ==
    /\ frame.pc = statements(alg) + 1
    /\ m_state' = merge(alg, m_state, frame.state)
    /\ calls' = Append(calls, m_block)
    /\ fed' = fed \o m_block
    /\ m_count' = m_count + sizeof_block_type(alg)
    /\ frame' = [pc |-> 0, state |-> <<>>, round |-> <<>>]
    /\ UNCHANGED <<alg, m_block, output, hasher, resumed, hmac, run>>

NextRounds == Enter \/ Statement \/ Leave

SpecRounds == Init /\ [][NextRounds]_vars

\* the step executes one round statement
IsStatement == frame.pc > 0 /\ frame'.pc = frame.pc + 1

\* the step exchanges word `index` of the first half of the local array with
\* word `index` of the second half and changes no other word
Exchanges(index) ==
    frame'.state = [frame.state EXCEPT
                       ![index + 1] = frame.state[view_size(alg) + index + 1],
                       ![view_size(alg) + index + 1] = frame.state[index + 1]]

\* the step changes one half of the local array, into what the statement
\* computes from that half, the block and its constants, and leaves the other
AdvancesOneLine ==
    \E from \in {0, view_size(alg)} :
        /\ \A j \in 1..Len(frame.state) :
               (j <= from \/ j > from + view_size(alg)) => frame'.state[j] = frame.state[j]
        /\ SubSeq(frame'.state, from + 1, from + view_size(alg))
               = line(alg, SubSeq(frame.state, from + 1, from + view_size(alg)),
                      m_block, steps(alg)[frame.pc])

\* C22 as stated: in a compress() call of RMD<256> and RMD<320> a word is
\* exchanged between the lines after each of four round groups of 16 statement
\* pairs, and at no other point.
C22_FourExchanges ==
    [][(alg \in {"RMD256", "RMD320"} /\ IsStatement) =>
           (IF frame.pc \in {33, 66, 99, 132}
            THEN \E index \in 0..(view_size(alg) - 1) : Exchanges(index)
            ELSE AdvancesOneLine)]_vars

\* C22, amended: in a compress() call of RMD<256> and RMD<320> the lines
\* exchange exactly one word after each round group of 16 statement pairs, of
\* which RMD<256> has four and RMD<320> five, and every other statement
\* advances one line from that line's words alone; the closing additions
\* follow the last exchange.
C22_ExchangeAfterEachGroup ==
    [][(alg \in {"RMD256", "RMD320"}) =>
           (/\ Len(steps(alg)) = 33 * (round_size(alg) \div 16)
            /\ round_size(alg) \div 16 = (IF alg = "RMD256" THEN 4 ELSE 5)
            /\ (IsStatement /\ frame.pc % 33 = 0) =>
                   (\E index \in 0..(view_size(alg) - 1) : Exchanges(index))
            /\ (IsStatement /\ frame.pc % 33 # 0) => AdvancesOneLine
            /\ (frame.pc > 0 /\ frame'.pc = 0) =>
                   (/\ frame.pc = Len(steps(alg)) + 1
                    /\ \A i \in 1..Len(m_state) :
                           m_state'[i] = WrappedSum(m_state[i], frame.state[i])))]_vars

\* the fifth exchange of a compress() call of RMD<320> has been made
C22_Witness ==
    /\ alg = "RMD320"
    /\ frame.pc = 166
    /\ frame.state[5] # locals(alg, m_state)[5]

\* the index exchanged after each round group, in order
SwapOrder(a) == IF a = "RMD256" THEN <<0, 1, 2, 3>> ELSE <<1, 3, 0, 2, 4>>

\* C23: the word exchanged after round group g of RMD<256> is word 0, 1, 2, 3
\* and of RMD<320> word 1, 3, 0, 2, 4 of each line, so that every position is
\* exchanged once in a compress() call; the lines are the halves [0, n) and
\* [n, 2n) of one local array of 2n words (n = 4, 5), whose word i is added to
\* chaining word i at the end.
C23_SwapPositions ==
    [][(alg \in {"RMD256", "RMD320"}) =>
           (/\ view_size(alg) = (IF alg = "RMD256" THEN 4 ELSE 5)
            /\ Len(m_state) = 2 * view_size(alg)
            /\ (frame'.pc > 0) => (Len(frame'.state) = 2 * view_size(alg))
            /\ \A index \in 0..(view_size(alg) - 1) :
                   Cardinality({g \in 1..Len(SwapOrder(alg)) : SwapOrder(alg)[g] = index}) = 1
            /\ (IsStatement /\ frame.pc % 33 = 0) =>
                   Exchanges(SwapOrder(alg)[frame.pc \div 33])
            /\ (IsStatement /\ frame.pc % 33 # 0) => AdvancesOneLine
            /\ (frame.pc > 0 /\ frame'.pc = 0) =>
                   (\A i \in 1..(2 * view_size(alg)) :
                        m_state'[i] = WrappedSum(m_state[i], frame.state[i])))]_vars

\* a compress() call of RMD<256> has returned after its four exchanges
C23_Witness ==
    /\ alg = "RMD256"
    /\ Len(calls) = 1
    /\ frame.pc = 0
    /\ m_state = compress(alg, InitialState(alg), calls[1])

\* the 32-bit word the host reads at byte offset 4 * i of the block buffer
NativeWord(i) ==
    <<m_block[4 * i + 1], m_block[4 * i + 2], m_block[4 * i + 3], m_block[4 * i + 4]>>

\* the array or view a round statement of MD4, MD5 or RMD works on
View(step) ==
    SubSeq(frame.state, offset(alg, step[1]) + 1, offset(alg, step[1]) + view_size(alg))

\* a round statement of MD4, MD5 or RMD adds block word i, 0 <= i < 16, as the
\* host reads it from the buffer: the word it hands to unshift is
\* rotl(hash[0] + bop(hash[1], hash[2], hash[3]) + K + (bytes 4i..4i+3), s)
ReadsDirectly ==
    (alg \in StepClasses /\ IsStatement /\ steps(alg)[frame.pc][1] # "swap") =>
        \A step \in {steps(alg)[frame.pc]} : \A hash \in {View(step)} :
            /\ step[4] \in 0..15
            /\ SubSeq(frame'.state, offset(alg, step[1]) + 1,
                      offset(alg, step[1]) + view_size(alg))
                   = unshift(alg, hash,
                         rotated(alg, hash,
                                 rotl(Add(Add(Add(hash[1],
                                                  bop(step[2], hash[2], hash[3], hash[4])),
                                              step[3]),
                                          NativeWord(step[4])),
                                      step[5])))

\* C24 as stated: in compress() of MD4, MD5, RMD and SHA1, round word i,
\* 0 <= i < 16, is the native word at buffer bytes 4i..4i+3, with no byte
\* reordering.
C24_AllReadDirectly ==
    [][/\ ReadsDirectly
       /\ (alg = "SHA1" /\ frame'.pc > 0) =>
              (\A i \in 0..15 : frame'.round[i + 1] = NativeWord(i)')]_vars

\* C24, amended: in compress() of MD4, MD5 and RMD the round statements use
\* block word i, 0 <= i < 16, as the native word at buffer bytes 4i..4i+3, with
\* no byte reordering; in SHA1 round word i is that word with its bytes
\* reversed (h2be), i.e. buffer bytes 4i..4i+3 read as a big-endian number.
C24_ReadDirectlyOrConverted ==
    [][/\ ReadsDirectly
       /\ (alg = "SHA1" /\ frame'.pc > 0) =>
              (\A i \in 0..15 :
                   frame'.round[i + 1] = <<m_block'[4 * i + 4], m_block'[4 * i + 3],
                                           m_block'[4 * i + 2], m_block'[4 * i + 1]>>)]_vars

\* SHA1 has run its first sixteen rounds on a block whose first word is not
\* its own reversal
C24_Witness ==
    /\ alg = "SHA1"
    /\ frame.pc = 17
    /\ frame.round[1] # NativeWord(0)
    /\ frame.state # m_state

\* the step enters compress(): the array `round` has been filled
IsEntry == frame.pc = 0 /\ frame'.pc = 1

\* rotr(r) ^ rotr(s) ^ (value >> t)
SmallSigma(value, r, s, t) == Xor(Xor(rotr(value, r), rotr(value, s)), shr(value, t))

\* the array `round` a compress() call of SHA2 has filled follows the recurrence
\* word[i] = word[i-16] + sigma0(word[i-15]) + word[i-7] + sigma1(word[i-2])
\* modulo 2^w from word 16 on, and has 64 (w = 32) or 80 (w = 64) words
Expanded ==
    /\ Len(frame'.round) = 48 + (state_bits(alg) \div 16)
    /\ Len(frame'.round) = (IF state_bits(alg) = 256 THEN 64 ELSE 80)
    /\ \A i \in 16..(Len(frame'.round) - 1) :
           \A s0 \in {IF state_bits(alg) = 256
                      THEN SmallSigma(frame'.round[i - 15 + 1], 7, 18, 3)
                      ELSE SmallSigma(frame'.round[i - 15 + 1], 1, 8, 7)} :
               \A s1 \in {IF state_bits(alg) = 256
                          THEN SmallSigma(frame'.round[i - 2 + 1], 17, 19, 10)
                          ELSE SmallSigma(frame'.round[i - 2 + 1], 19, 61, 6)} :
                   \A sum1 \in {WrappedSum(frame'.round[i - 16 + 1], s0)} :
                       \A sum2 \in {WrappedSum(sum1, frame'.round[i - 7 + 1])} :
                           frame'.round[i + 1] = WrappedSum(sum2, s1)

\* a compress() call of SHA2 executes one round for each word of `round`, in
\* order, round i on round[i] and g_round[i], and then returns
OneRoundPerWord ==
    /\ IsStatement =>
           /\ frame.pc <= Len(frame.round)
           /\ frame'.round = frame.round
           /\ frame'.state =
                  sha2_unshift(frame.state,
                      Add(delta0(frame.state[1]),
                          bop("bop232", frame.state[1], frame.state[2], frame.state[3])),
                      Add(Add(Add(Add(delta1(frame.state[5]),
                                      bop("bop202", frame.state[5], frame.state[6],
                                          frame.state[7])),
                                  frame.state[8]),
                              frame.round[frame.pc]),
                          g_round(alg)[frame.pc]))
    /\ (frame.pc > 0 /\ frame'.pc = 0) => frame.pc = Len(frame.round) + 1

\* C25 as stated: SHA2<256,*> uses 64 round words and SHA2<512,*> 80; round
\* words 0..15 are the 16 words of the block, the later ones follow the
\* recurrence with sigma0 and sigma1, and one round is executed per round word
\* with g_round[i].
C25_ScheduleFromBlockWords ==
    [][Class(alg) = "SHA2" =>
           (/\ IsEntry =>
                   (/\ \A i \in 0..15 :
                           frame'.round[i + 1]
                               = WordAt(m_block', i, sizeof_word_type(alg))
                    /\ Expanded)
            /\ OneRoundPerWord)]_vars

\* C25, amended: as C25, but round words 0..15 are the 16 words of the block
\* converted with h2be, i.e. read from the buffer as big-endian numbers.
C25_ScheduleFromConvertedWords ==
    [][Class(alg) = "SHA2" =>
           (/\ IsEntry =>
                   (/\ \A i \in 0..15 :
                           \A w \in {sizeof_word_type(alg)} :
                               frame'.round[i + 1]
                                   = Tuple([j \in 1..w |-> m_block'[w * i + w + 1 - j]])
                    /\ Expanded)
            /\ OneRoundPerWord)]_vars

\* a compress() call of SHA2<512, 384> has executed its 80 rounds
C25_Witness ==
    /\ alg = "SHA2_512_384"
    /\ Len(frame.round) = 80
    /\ frame.pc = 81
    /\ frame.state # m_state

(***************************************************************************)
(* The compress() calls digest() makes on its copy.                        *)
(***************************************************************************)
\* the byte counts tried before digest() in every state: the object as it is,
\* and filled up to one byte short of a block, where the marker completes it
Shortfalls(a, h) == {0, sizeof_block_type(a) - 1 - (h.m_count % sizeof_block_type(a))}

\* C26: digest() on a hasher holding n bytes runs compress on its copy once
\* when (n mod B) + 1 + L <= B and twice otherwise; the last of these calls is
\* made by the update that absorbs the length field, which makes exactly one and
\* hands compress a block ending in the length field, and leaves the copy's
\* byte count a multiple of B.
C26_CompressionsDuringDigest ==
    /\ \A extra \in Shortfalls(alg, Self) :
           \A h \in {update_fill(alg, Self, extra, 97)} :
               \A marked \in {Marked(alg, h)} :
                   \A padded \in {Padded(alg, marked)} :
                       \A closed \in {Closed(alg, h, padded)} :
                           \A B \in {sizeof_block_type(alg)} :
                               \A L \in {sizeof_size_type(alg)} :
                                   /\ Len(closed.calls) - Len(h.calls)
                                          = (IF (h.m_count % B) + 1 + L <= B THEN 1 ELSE 2)
                                   /\ Len(closed.calls) = Len(padded.calls) + 1
                                   /\ SubSeq(closed.calls[Len(closed.calls)], B - L + 1, B)
                                          = SubSeq(closed.fed, Len(closed.fed) - L + 1,
                                                   Len(closed.fed))
                                   /\ padded.m_count % B = B - L
                                   /\ closed.m_count % B = 0
    /\ output # <<>> =>
           /\ hasher.calls = Closed(alg, Self, Padded(alg, Marked(alg, Self))).calls
           /\ hasher.m_count % sizeof_block_type(alg) = 0
           /\ Len(hasher.calls) - Len(calls)
                  = (IF (m_count % sizeof_block_type(alg)) + 1 + sizeof_size_type(alg)
                            <= sizeof_block_type(alg)
                     THEN 1 ELSE 2)

\* digest() was called with B - L bytes buffered, one more than leaves room for
\* marker and length field: its copy ran compress twice
C26_Witness ==
    /\ output # <<>>
    /\ m_count % sizeof_block_type(alg) = sizeof_block_type(alg) - sizeof_size_type(alg)
    /\ Len(hasher.calls) = Len(calls) + 2
    /\ hasher.m_count = m_count + sizeof_block_type(alg) + sizeof_size_type(alg)

(***************************************************************************)
(* update() followed store by store: the two loops of                      *)
(* update(input, count) and update(count, byte), one step for each test of *)
(* the outer loop, each store into m_block, each compress call and the     *)
(* return.                                                                 *)
(***************************************************************************)
\* the counts passed: nothing, one byte less and one byte more than a block
StoreCounts(a) == {0, sizeof_block_type(a) - 1, sizeof_block_type(a) + 1}

\* the byte the next store writes: *input++, the caller's buffer holding the
\* bytes of the stream from m_count on, or the fill byte
NextByte == IF run.fill THEN run.byte ELSE Stream(m_count + run.input)

\* entry of update(input, count) or update(count, byte)
Begin ==
    /\ run.at = "idle"
    /\ \E count \in StoreCounts(alg), fill \in BOOLEAN :
           /\ m_count + count <= MaxBlocks * sizeof_block_type(alg)
           /\ \E locals_ \in {entry(alg, Self, count)} :
                  run' = [at |-> "outer", cursor |-> locals_.cursor,
                          excess |-> locals_.excess, blocks |-> locals_.blocks,
                          count |-> count, fill |-> fill, byte |-> 128, input |-> 0]
    /\ output' = <<>>
    /\ hasher' = New(alg)
    /\ resumed' = (resumed \/ output # <<>>)
    /\ UNCHANGED <<alg, m_count, m_block, m_state, fed, calls, hmac, frame>>

\* while (blocks-- != 0): into the pass, or on to the last loop
Test ==
    /\ run.at = "outer"
    /\ run' = IF run.blocks # 0
              THEN [run EXCEPT !.blocks = @ - 1, !.at = "inner"]
              ELSE [run EXCEPT !.at = "tail"]
    /\ UNCHANGED <<alg, m_count, m_block, m_state, fed, calls, output, hasher, resumed,
                   hmac, frame>>

\* m_block.data()[cursor++] = *input++ (or = input), in either loop
Store ==
    /\ \/ run.at = "inner" /\ run.cursor < sizeof_block_type(alg)
       \/ run.at = "tail" /\ run.cursor < run.excess
    /\ m_block' = [m_block EXCEPT ![run.cursor + 1] = NextByte]
    /\ run' = [run EXCEPT !.cursor = @ + 1,
                          !.input = IF run.fill THEN @ ELSE @ + 1]
    /\ UNCHANGED <<alg, m_count, m_state, fed, calls, output, hasher, resumed, hmac,
                   frame>>

\* cursor = (compress(m_block), 0)
Call ==
    /\ run.at = "inner"
    /\ ~(run.cursor < sizeof_block_type(alg))
    /\ m_state' = compress(alg, m_state, m_block)
    /\ calls' = Append(calls, m_block)
    /\ run' = [run EXCEPT !.cursor = 0, !.at = "outer"]
    /\ UNCHANGED <<alg, m_count, m_block, fed, output, hasher, resumed, hmac, frame>>

\* return (m_count += count, *this)
Return ==
    /\ run.at = "tail"
    /\ ~(run.cursor < run.excess)
    /\ m_count' = m_count + run.count
    /\ fed' = fed \o (IF run.fill THEN Fill(run.count, run.byte)
                                  ELSE Chunk(m_count, run.count))
    /\ run' = Idle
    /\ UNCHANGED <<alg, m_block, m_state, calls, output, hasher, resumed, hmac, frame>>

NextStores == Begin \/ Test \/ Store \/ Call \/ Return

SpecStores == Init /\ [][NextStores]_vars

\* the bytes the call in progress has stored so far
Taken ==
    IF run.fill
    THEN Fill((Len(calls) * sizeof_block_type(alg)) + run.cursor - m_count, run.byte)
    ELSE Chunk(m_count, run.input)

\* the step stores a byte into m_block
IsStore == run.at \in {"inner", "tail"} /\ run'.at = run.at

\* C27: in every update call every store into the block buffer has an index in
\* [0, B); compress is called only with the index at B, on a buffer whose B
\* bytes are the last B bytes of the stream so far; and update(ptr, count)
\* reads the input bytes 0 .. count-1, one after the other and each once, and
\* none at offset count or beyond.
C27_BufferAndInputBounds ==
    [][/\ IsStore =>
              (/\ run.cursor \in 0..(sizeof_block_type(alg) - 1)
               /\ run'.cursor = run.cursor + 1
               /\ Len(m_block') = sizeof_block_type(alg)
               /\ \A i \in 1..Len(m_block) :
                      m_block'[i] = (IF i = run.cursor + 1 THEN NextByte ELSE m_block[i])
               /\ ~run.fill =>
                      (/\ run.input < run.count
                       /\ run'.input = run.input + 1
                       /\ m_block'[run.cursor + 1] = Chunk(m_count, run.count)[run.input + 1]))
       /\ ~IsStore => run'.input = (IF run'.at = "idle" THEN 0 ELSE run.input)
       /\ (Len(calls') = Len(calls) + 1) =>
              (/\ run.cursor = sizeof_block_type(alg)
               /\ \A stream \in {fed \o Taken} :
                      calls'[Len(calls')]
                          = SubSeq(stream, Len(stream) - sizeof_block_type(alg) + 1,
                                   Len(stream)))
       /\ (run.at # "idle" /\ run'.at = "idle") =>
              (/\ ~run.fill => run.input = run.count
               /\ m_count' = m_count + run.count)]_vars

\* update(input, B + 1) on an object holding B - 1 bytes has run compress
\* twice and read its last input byte
C27_Witness ==
    /\ run.at = "tail"
    /\ ~run.fill
    /\ run.count = sizeof_block_type(alg) + 1
    /\ run.input = run.count
    /\ m_count = sizeof_block_type(alg) - 1
    /\ Len(calls) = 2

(***************************************************************************)
(* Bytes of the block buffer at and beyond the cursor.                     *)
(***************************************************************************)
\* hasher h with every buffer byte at an index >= m_count mod B changed, by
\* adding k modulo 256
Stale(h, k) ==
    [h EXCEPT !.m_block =
        Tuple([i \in 1..Len(h.m_block) |->
            IF i > h.m_count % Len(h.m_block) THEN (h.m_block[i] + k) % 256
                                               ELSE h.m_block[i]])]

\* the amounts added
Junk == {1, 255}

\* the counts of the update calls applied to both objects: one byte, and a
\* block and a byte
TwinCounts(a) == {1, sizeof_block_type(a) + 1}

\* the two objects agree on m_count, m_state and the buffer below the cursor
Agree(x, y) ==
    /\ x.m_count = y.m_count
    /\ x.m_state = y.m_state
    /\ SubSeq(x.m_block, 1, x.m_count % Len(x.m_block))
           = SubSeq(y.m_block, 1, y.m_count % Len(y.m_block))

\* C28: the buffer is not cleared by compress(), yet two hashers that agree on
\* m_count, m_state and the buffer bytes below m_count mod B, and differ in
\* every byte from there on, return the same digest, and after the same update
\* call agree again on m_count, m_state and the bytes below the cursor, and
\* return the same digest.  Stated of the object as the constructor and every
\* update call leave it, and its twins.
C28_StaleBytesNeverInfluence ==
    /\ Len(calls) > 0 => m_block # New(alg).m_block
    /\ output = <<>> =>
           \A own \in {digest(alg, Self)} :
               \A k \in Junk :
                   \A twin \in {Stale(Self, k)} :
                       /\ Agree(Self, twin)
                       /\ \A i \in ((m_count % Len(m_block)) + 1)..Len(m_block) :
                              twin.m_block[i] # m_block[i]
                       /\ \A other \in {digest(alg, twin)} :
                              /\ other.result = own.result
                              /\ other.self = twin
                       /\ \A count \in TwinCounts(alg) :
                              \A mine \in {update(alg, Self, Chunk(m_count, count), count)} :
                                  \A theirs \in {update(alg, twin, Chunk(m_count, count), count)} :
                                      /\ Agree(mine, theirs)
                                      /\ digest(alg, theirs).result = digest(alg, mine).result

\* an object that has compressed a block and holds B - L - 1 bytes of the next
\* over the bytes of the first
C28_Witness ==
    /\ Len(calls) = 1
    /\ m_count = (2 * sizeof_block_type(alg)) - (2 * sizeof_size_type(alg)) - 2
    /\ output = <<>>
    /\ \E i \in ((m_count % Len(m_block)) + 1)..Len(m_block) : m_block[i] # 0

(***************************************************************************)
(* The byte counter as the unsigned word it is: m_count is held as the     *)
(* bytes of a size_type, update() adds to it and digest() shifts it.       *)
(***************************************************************************)
\* A faulty counter: 64 bits wide in every class.
count_addNarrow(a, count, added) ==
    SubSeq(WrappedSum(SubSeq(count, 1, 8), SubSeq(added, 1, 8)), 1, 8)
        \o Fill(sizeof_size_type(a) - 8, 0)
\* m_count += count on size_type
count_add(a, count, added) ==
    IF sizeof_size_type(a) = 8 THEN Add(count, added) ELSE WrappedSum(count, added)

\* digest(): the argument of the last update, m_count << 3, through h2be() in
\* SHA1 and SHA2
length_field(a, count) ==
    IF SwapsBytes(a) THEN h2be(shl(count, 3)) ELSE shl(count, 3)

\* the size_type with byte v at position p (from 1) and zero elsewhere
Unit(a, p, v) == Tuple([i \in 1..sizeof_size_type(a) |-> IF i = p THEN v ELSE 0])

\* the size_type with every byte 255 but the highest, which is `top`
Ones(a, top) ==
    Tuple([i \in 1..sizeof_size_type(a) |-> IF i = sizeof_size_type(a) THEN top ELSE 255])

\* the counts tried: 0, 1, 2^30, 2^64 - 1 (the low eight bytes 255),
\* 2^(W-3) - 1, 2^(W-3) and 2^W - 1
CounterValues(a) ==
    {Unit(a, 1, 0), Unit(a, 1, 1), Unit(a, 4, 64),
     Tuple([i \in 1..sizeof_size_type(a) |-> IF i <= 8 THEN 255 ELSE 0]),
     Ones(a, 31), Unit(a, sizeof_size_type(a), 32), Ones(a, 255)}

\* an object that has absorbed one of these numbers of bytes
InitCounter ==
    /\ alg \in Algs
    /\ m_count \in CounterValues(alg)
    /\ m_block = New(alg).m_block
    /\ m_state = New(alg).m_state
    /\ fed = <<>>
    /\ calls = <<>>
    /\ output = <<>>
    /\ hasher = New(alg)
    /\ resumed = FALSE
    /\ hmac = [m_key |-> <<>>, secret |-> <<>>]
    /\ frame = [pc |-> 0, state |-> <<>>, round |-> <<>>]
    /\ run = Idle

\* update(input, count) or update(count, byte) on an object that has absorbed
\* one of these numbers of bytes: return (m_count += count, *this)
Advance ==
    /\ m_count \in CounterValues(alg)
    /\ \E count \in CounterValues(alg) : m_count' = count_add(alg, m_count, count)
    /\ output' = <<>>
    /\ UNCHANGED <<alg, m_block, m_state, fed, calls, hasher, resumed, hmac, frame, run>>

\* digest(): the length field handed to the last update
Length ==
    /\ output' = length_field(alg, m_count)
    /\ UNCHANGED <<alg, m_count, m_block, m_state, fed, calls, hasher, resumed, hmac,
                   frame, run>>

NextCounter == Advance \/ Length

SpecCounter == InitCounter /\ [][NextCounter]_vars

\* the word as a number one byte wider
Widened(word) == word \o <<0>>

\* C29: the byte counter and the length field are W = 8 * sizeof(size_type)
\* bits wide, 128 in SHA2<512,*> and 64 elsewhere; update stores (m_count +
\* count) mod 2^W whatever the count; the length field is (8 * m_count) mod 2^W,
\* which is the bit length itself exactly when m_count < 2^(W-3), so that 2^30
\* bytes are encoded as 2^33 bits.
C29_CounterWidthAndWrap ==
    \A L \in {sizeof_size_type(alg)} :
        /\ L = (IF alg \in {"SHA2_512_224", "SHA2_512_256", "SHA2_512_384", "SHA2_512_512"}
                THEN 16 ELSE 8)
        /\ Len(m_count) = L
        /\ \A count \in CounterValues(alg) :
               \A sum \in {WrappedSum(Widened(m_count), Widened(count))} :
                   count_add(alg, m_count, count) = SubSeq(sum, 1, L)
        /\ \A bits \in {shl(Widened(m_count), 3)} :
               \A field \in {length_field(alg, m_count)} :
                   /\ Len(field) = L
                   /\ (IF SwapsBytes(alg) THEN h2be(field) ELSE field) = SubSeq(bits, 1, L)
                   /\ (Widened(IF SwapsBytes(alg) THEN h2be(field) ELSE field) = bits)
                          <=> (m_count[L] < 32)
                   /\ m_count = Unit(alg, 4, 64) =>
                          (IF SwapsBytes(alg) THEN h2be(field) ELSE field) = Unit(alg, 5, 2)
                   /\ output # <<>> => output = field

\* SHA2<512, 512> holds 2^125 bytes and digest() has formed the length field,
\* which has wrapped to zero
C29_Witness ==
    /\ alg = "SHA2_512_512"
    /\ m_count = Unit(alg, 16, 32)
    /\ output = Unit(alg, 1, 0)

(***************************************************************************)
(* The destructor.                                                         *)
(***************************************************************************)
\* C30: the destructor sets all B bytes of the block buffer of the object it
\* runs on to zero and leaves its count and state; the copy digest() makes is
\* destroyed when digest() returns, which leaves the object digest() was called
\* on as it was and the value returned equal to the leading bytes of the copy's
\* state.
C30_ScrubOnDestruction ==
    /\ \A gone \in {destroy(alg, Self)} :
           /\ Len(gone.m_block) = sizeof_block_type(alg)
           /\ \A i \in 1..sizeof_block_type(alg) : gone.m_block[i] = 0
           /\ gone.m_count = m_count
           /\ gone.m_state = m_state
    /\ \A call \in {digest(alg, Self)} :
           /\ Len(call.scrubbed.m_block) = sizeof_block_type(alg)
           /\ \A i \in 1..sizeof_block_type(alg) : call.scrubbed.m_block[i] = 0
           /\ call.scrubbed.m_state = call.hasher.m_state
           /\ call.scrubbed.m_count = call.hasher.m_count
           /\ call.hasher.m_block # call.scrubbed.m_block
           /\ call.self = Self
           /\ call.result = SubSeq(Bytes(call.scrubbed.m_state), 1, sizeof_output_type(alg))
           /\ output # <<>> =>
                  /\ output = call.result
                  /\ hasher = call.hasher

\* digest() has returned on an object that has compressed a block and holds
\* bytes in its buffer, as did the copy before it was destroyed
C30_Witness ==
    /\ output # <<>>
    /\ Len(calls) = 1
    /\ m_count % sizeof_block_type(alg) # 0
    /\ m_block # Fill(sizeof_block_type(alg), 0)
    /\ hasher.m_block # Fill(sizeof_block_type(alg), 0)
====
